---- MODULE Spec2Model ----
(***************************************************************************)
(* Model of the ingestion-and-retrieval core of inv-app:                   *)
(*   - the embedding generator and its retry loop (lib/upstash.ts in two   *)
(*     revisions: src/lib/upstash.ts, "lib", and src/unnamed/part_007,     *)
(*     "p7");                                                              *)
(*   - the embedding pipeline upsertEmbeddings;                            *)
(*   - the processing coordinator (src/unnamed/part_008, the revision of   *)
(*     lib/file-processing-status.ts that src/lib/actions.ts imports);     *)
(*   - the server actions processInventoryData and clearAllData.           *)
(*                                                                         *)
(* Time is counted in units of five minutes (the lock's TTL).  The file    *)
(* system and JSON (de)serialisation are taken to be reliable: the catch   *)
(* blocks around fs calls are modelled only where another request can make *)
(* the call fail (a lock file unlinked between existsSync and readFile;    *)
(* in PollSpec, a status file read between the open and the write of a     *)
(* writeFile).                                                             *)
(***************************************************************************)
EXTENDS Integers, Sequences, FiniteSets, TLC

VARIABLES
  \* ---- embedding generator (generateEmbedding / retryWithBackoff)
  rev,        \* which revision of upstash.ts runs: "lib" or "p7"
  native,     \* width of the vector the embedding backend answers with
  epc,        \* "fn": about to call fn; "sleep": about to wait; "returned"; "thrown"
  retries,    \* retryWithBackoff's local `retries`
  delay,      \* retryWithBackoff's local `delay` (ms)
  attempts,   \* outcome of every fn() call so far: [ok, error]
  waits,      \* every setTimeout duration awaited so far (ms)
  embedded,   \* the vector generateEmbedding returned (<<>> before it returns)
  thrown,     \* the error generateEmbedding threw (NoError before it throws)
  \* ---- processing coordinator (tmp/processing_status.json, tmp/upload_lock.json)
  statusFile, \* <<>> when the status file does not exist, else <<status>>
  lockFile,   \* <<>> when the lock file does not exist, else <<lock>>
  now,        \* Date.now(), in units of five minutes
  cpc,        \* the caller's position: "ready", or inside the mutual recursion of
              \* getProcessingStatus ("gps") and setProcessingError ("spe")
  pending,    \* the coordinator call that has not returned yet ("none" when ready)
  lastOp,     \* what the last step did: [op, userId, ret]
  \* ---- embedding pipeline (upsertEmbeddings)
  records,    \* the parsed payload: for each record the length of its `key: value` text
  chunks,     \* generateChunks(content): each chunk the sequence of records packed in it
  ppc,        \* position in upsertEmbeddings
  batchStart, \* the loop variable `i`
  successCount,
  outcome,    \* per chunk: "waiting", "pending" (embedding in flight), "ok", "failed"
  store,      \* the vector store: the ids (chunk positions) it holds
  upserts,    \* every index.upsert call so far: the set of ids it carried
  pipeResult, \* what upsertEmbeddings returned or threw
  maxChunkSize, \* the second argument of generateChunks
  \* ---- server actions (processInventoryData, clearAllData), one per user
  kind,       \* which action the invocation runs: "none", "process", "clear"
  pc,         \* the statement of the action the invocation is at
  sub,        \* the file operation it is at inside the coordinator call of pc
  currentStatus, \* the status its last getProcessingStatus returned
  errorMessage,  \* the message of the error it has raised
  result,     \* what the caller got: "none", "rejected", "success", "failure", "thrown"
  started,    \* whether its startProcessing returned
  \* ---- clearAllEmbeddings (paginated revision, src/unnamed/part_007)
  vectorCount,   \* how many vectors the store holds
  initialCount,  \* how many it held when clearAllEmbeddings was called
  clpc,          \* position in clearAllEmbeddings: "idle", "query", "delete", "done"
  found,         \* vectors.length of the round's query
  delI,          \* the delete loop's `i`
  deletedCount,
  queryLog,      \* every index.query so far: [topK, returned]
  deleteSizes,   \* the numbers of ids the index.delete calls carried
  clearResult,   \* "none", "success", "failure": the success field returned
  \* ---- findRelevantContent and the chat handler (src/app/api/chat/route.ts)
  caller,     \* who calls findRelevantContent: "chat" (POST /api/chat) or "direct"
  fquery,     \* the query string, with what the material-code heuristic sees in it
  fk,         \* the argument k
  ranking,    \* the store's vectors, ranked by similarity to the query
  fpc,        \* position: "idle", "exists", "embed", "query", "returned", "thrown", "responded"
  ftopK,      \* the topK sent to index.query (0 before)
  fcalls,     \* the backend calls made so far: [call, ok, answer]
  fresult,    \* the list findRelevantContent returned
  ferror,     \* the error findRelevantContent threw ("none" before)
  response,   \* the chat handler's response: [status, context]
  \* ---- a status poll (GET /api/processing-status) beside a run's updateProgress
  truncated,  \* the status file exists and is empty: a writeFile has opened it
              \* (flag 'w') and has not written yet
  wpc,        \* the run's position in updateProgress
  wbuf,       \* the status the run's writeFile is about to write
  wcount,     \* how many updateProgress calls of the run have returned
  rpc,        \* the poll's position in getProcessingStatus
  polled,     \* what the poll's getProcessingStatus returned (<<>> before)
  \* ---- one server action and the reset-index endpoint, seen from the store
  indexDim,   \* the dimension the index was created with (index.info().dimension)
  storedDims, \* the lengths of the vectors the store holds
  newCount,   \* how many vectors of the store this action upserted;
              \* vectorCount counts those that were there before it
  mutations,  \* every reset, delete and upsert so far: [op, by, inRun]
  aphase,     \* the action's position
  akind,      \* "process" (processInventoryData) or "clear" (clearAllData)
  aresult,    \* what its caller got: "none", "success", "failure", "thrown"
  routeCalls, \* how many POST /api/setup-index were served
  lastInfo,   \* the dimension the last index.info() reported (0: none, or it failed)
  \* ---- upsertEmbeddings called again after clearAllEmbeddings
  history,    \* what each call of upsertEmbeddings did: [totalChunks, ids, failed, stored]
  rphase      \* what is called next: "ingest", "clear"; "idle", "done"

embedVars == <<rev, native, epc, retries, delay, attempts, waits, embedded, thrown>>
coordVars == <<statusFile, lockFile, now, cpc, pending, lastOp>>
pipeVars == <<records, chunks, ppc, batchStart, successCount, outcome, store, upserts,
              pipeResult, maxChunkSize>>

runVars == <<kind, pc, sub, currentStatus, errorMessage, result, started>>

clearVars == <<vectorCount, initialCount, clpc, found, delI, deletedCount, queryLog,
               deleteSizes, clearResult>>
findVars == <<caller, fquery, fk, ranking, fpc, ftopK, fcalls, fresult, ferror, response>>
pollVars == <<truncated, wpc, wbuf, wcount, rpc, polled>>
ingVars == <<indexDim, storedDims, newCount, mutations, aphase, akind, aresult,
             routeCalls, lastInfo>>
reVars == <<history, rphase>>
extVars == <<pollVars, ingVars, reVars>>
svcVars == <<clearVars, findVars, extVars>>

vars == <<embedVars, coordVars, pipeVars, runVars, svcVars>>

\* ------------------------------------------------------------------------
\* Embedding generator
\* ------------------------------------------------------------------------

Revisions == {"lib", "p7"}

\* const VECTOR_DIMENSIONS = 1536
VECTOR_DIMENSIONS == 1536

\* The widths the embedding backend may answer with: D/2, D, 2*D.
NativeWidths == {VECTOR_DIMENSIONS \div 2, VECTOR_DIMENSIONS, 2 * VECTOR_DIMENSIONS}

\* result.embedding.values of a backend of width d.
BackendValues(d) == [i \in 1..d |-> 1 + (i % 3)]

\* An error is modelled by the set of substrings, among those the code looks
\* for, that error.toString() contains.
Markers == {"429", "Too Many Requests", "rate limit"}
BackendErrors == {{"429", "Too Many Requests"}, {"Too Many Requests"}, {"rate limit"}, {}}
NoError == [kind |-> "none"]

\* retryWithBackoff's parameters as generateEmbedding passes them:
\* lib: the defaults (maxRetries = 5, initialDelay = 1000, factor = 2);
\* p7:  retryWithBackoff(fn, 3, 2000, 2).
MaxRetriesLib == 5
InitialDelayLib == 1000
MaxRetriesP7 == 3
InitialDelayP7 == 2000
Factor == 2

\* A plausible slip: part_007 leaves maxRetries at its default.
maxRetries_default(r) == MaxRetriesLib

maxRetries(r) == IF r = "lib" THEN MaxRetriesLib ELSE MaxRetriesP7
initialDelay(r) == IF r = "lib" THEN InitialDelayLib ELSE InitialDelayP7

\* A plausible slip: every error is taken for a rate-limit error.
isRateLimitError_any(r, error) == TRUE

\* lib:  error.toString().includes("429")
\* p7:   includes("429") || includes("Too Many Requests") || includes("rate limit")
isRateLimitError(r, error) ==
  IF r = "lib" THEN "429" \in error
  ELSE "429" \in error \/ "Too Many Requests" \in error \/ "rate limit" \in error

\* A plausible slip: the loop retries at once.
retryDelay_none(r, error, d) == 0

\* lib: setTimeout(resolve, delay);
\* p7:  retryDelay = isRateLimitError ? delay * 2 : delay; setTimeout(resolve, retryDelay)
retryDelay(r, error, d) ==
  IF r = "lib" THEN d
  ELSE IF isRateLimitError(r, error) THEN d * 2 ELSE d

Zeros(n) == [i \in 1..n |-> 0]

\* The body of the function generateEmbedding hands to retryWithBackoff, after
\* embedContent answered with `embedding`.
\* lib: slice(0, D) when longer, zero-padded when shorter, unchanged when equal.
\* p7:  [...embedding, ...embedding], whatever its length.
resizeEmbedding(r, embedding) ==
  IF r = "lib"
  THEN IF Len(embedding) # VECTOR_DIMENSIONS
       THEN IF Len(embedding) > VECTOR_DIMENSIONS
            THEN SubSeq(embedding, 1, VECTOR_DIMENSIONS)
            ELSE embedding \o Zeros(VECTOR_DIMENSIONS - Len(embedding))
       ELSE embedding
  ELSE embedding \o embedding

\* throw new Error(`Failed to generate embedding: ${error.message}`)
EmbeddingFailed(error) == [kind |-> "Failed to generate embedding", cause |-> error]

\* ------------------------------------------------------------------------
\* Processing coordinator: records and pure helpers
\* ------------------------------------------------------------------------

\* Users that call the coordinator (generateUserId gives every request its own).
Users == {"u1", "u2"}

\* An optional field that is absent from the JSON document.
Undefined == "undefined"
\* startTime when absent; Date.now() itself is never 0, and both are falsy.
NoTime == 0
NoProgress == [current |-> 0, total |-> 0, message |-> Undefined]

\* 5 * 60 * 1000 ms and 30 * 60 * 1000 ms, in units of five minutes.
LOCK_TTL == 1
PROCESSING_TIMEOUT == 6

\* The clock stops at MaxNow.
MaxNow == 8

TimedOutMessage == "Processing timed out after 30 minutes"
CannotStart == "Cannot start processing: another user is currently uploading data."

\* A plausible slip: the lock expires when it is exactly five minutes old.
LockExpired_ge(lock, t) == t - lock.timestamp >= LOCK_TTL

\* Date.now() - lock.timestamp > 5 * 60 * 1000
LockExpired(lock, t) == t - lock.timestamp > LOCK_TTL

\* JSON.stringify({userId, timestamp: Date.now()})
NewLock(userId, t) == [userId |-> userId, timestamp |-> t]

\* A plausible slip: a valid lock is refused to its own owner too.
tryAcquireLockRet_noOwner(lf, userId, t) ==
  IF lf # <<>>
  THEN LockExpired(lf[1], t)
  ELSE TRUE

\* tryAcquireLock(userId): the value it returns ...
tryAcquireLockRet(lf, userId, t) ==
  IF lf # <<>>
  THEN IF LockExpired(lf[1], t) THEN TRUE ELSE lf[1].userId = userId
  ELSE TRUE

\* ... and the lock file it leaves.
tryAcquireLockFile(lf, userId, t) ==
  IF lf # <<>>
  THEN IF LockExpired(lf[1], t) THEN <<NewLock(userId, t)>> ELSE lf
  ELSE <<NewLock(userId, t)>>

\* releaseLock(userId): only the owner unlinks the file.
releaseLockFile(lf, userId) ==
  IF lf # <<>> /\ lf[1].userId = userId THEN <<>> ELSE lf

\* `if (userId) await releaseLock(userId)`
releaseIfUser(lf, userId) ==
  IF userId # Undefined THEN releaseLockFile(lf, userId) ELSE lf

\* The status initProcessingStatus writes.
InitStatus(t) ==
  [isProcessing |-> FALSE, startTime |-> NoTime, progress |-> NoProgress,
   error |-> Undefined, lastUpdated |-> t, userId |-> Undefined, locked |-> FALSE]

\* The status startProcessing writes.
StartStatus(userId, t) ==
  [isProcessing |-> TRUE, startTime |-> t,
   progress |-> [current |-> 0, total |-> 0, message |-> "Starting processing..."],
   error |-> Undefined, lastUpdated |-> t, userId |-> userId, locked |-> TRUE]

\* A plausible slip: every update restarts the clock of the run.
ProgressStatus_restart(cur, current, total, message, t) ==
  [isProcessing |-> TRUE, startTime |-> t,
   progress |-> [current |-> current, total |-> total, message |-> message],
   error |-> Undefined, lastUpdated |-> t, userId |-> cur.userId, locked |-> TRUE]

\* The status updateProgress writes, `cur` being what getProcessingStatus returned:
\* startTime = currentStatus.startTime || Date.now(), userId = currentStatus.userId.
ProgressStatus(cur, current, total, message, t) ==
  [isProcessing |-> TRUE,
   startTime |-> IF cur.startTime # NoTime THEN cur.startTime ELSE t,
   progress |-> [current |-> current, total |-> total, message |-> message],
   error |-> Undefined, lastUpdated |-> t, userId |-> cur.userId, locked |-> TRUE]

\* A plausible slip: setProcessingError keeps the record's locked flag.
ErrorStatus_keepsLocked(cur, error, t) ==
  [isProcessing |-> FALSE, startTime |-> cur.startTime, progress |-> cur.progress,
   error |-> error, lastUpdated |-> t, userId |-> cur.userId, locked |-> cur.locked]

\* The status setProcessingError writes.
ErrorStatus(cur, error, t) ==
  [isProcessing |-> FALSE, startTime |-> cur.startTime, progress |-> cur.progress,
   error |-> error, lastUpdated |-> t, userId |-> cur.userId, locked |-> FALSE]

\* The status endProcessing writes.
EndStatus(t) ==
  [isProcessing |-> FALSE, startTime |-> NoTime, progress |-> NoProgress,
   error |-> Undefined, lastUpdated |-> t, userId |-> Undefined, locked |-> FALSE]

\* status.isProcessing && status.startTime && Date.now() - status.startTime > 30 * 60 * 1000
IsStale(status, t) ==
  /\ status.isProcessing
  /\ status.startTime # NoTime
  /\ t - status.startTime > PROCESSING_TIMEOUT

StaleFile(sf, t) == sf # <<>> /\ IsStale(sf[1], t)

\* What getProcessingStatus returns when the record is not stale: the record
\* read, or the one initProcessingStatus writes when there is no file.
Fetch(sf, t) == IF sf = <<>> THEN InitStatus(t) ELSE sf[1]

\* status.locked && status.userId && status.userId !== currentUserId
LockedByOther(status, currentUserId) ==
  status.locked /\ status.userId # Undefined /\ status.userId # currentUserId

\* The coordinator's files before any request: tmp/ holds neither file.
CoordIdle ==
  /\ statusFile = <<>>
  /\ lockFile = <<>>
  /\ now = 1
  /\ cpc = "ready"
  /\ pending = "none"
  /\ lastOp = [op |-> "none", userId |-> "undefined", ret |-> "none"]

\* ------------------------------------------------------------------------
\* Chunker and pipeline: pure helpers
\* ------------------------------------------------------------------------

\* generateChunks(input, maxChunkSize = 2000)
DefaultMaxChunkSize == 2000

\* const batchSize = 3 (src/lib/upstash.ts), 5 (src/unnamed/part_007)
BatchSizeLib == 3
BatchSizeP7 == 5
batchSize(r) == IF r = "lib" THEN BatchSizeLib ELSE BatchSizeP7

\* Number of decimal digits of the ordinal i + 1 (at most 500 records are kept).
Digits(n) == IF n < 10 THEN 1 ELSE IF n < 100 THEN 2 ELSE 3

\* itemWithHeader.length of the record at (1-based) place k:
\* `Item ${k}:\n${itemText}`.
ItemLen(data, k) == 5 + Digits(k) + 2 + data[k]

RECURSIVE SumItemLen(_, _)
SumItemLen(data, items) ==
  IF items = <<>> THEN 0 ELSE ItemLen(data, Head(items)) + SumItemLen(data, Tail(items))

\* currentChunk.length: the records of the chunk joined by "\n\n".
ChunkLen(data, chunk) ==
  IF chunk = <<>> THEN 0 ELSE SumItemLen(data, chunk) + 2 * (Len(chunk) - 1)

\* The loop of generateChunks over data[k..], with `chunks` and `currentChunk`.
\* A plausible slip: the separator is left out of the size test.
Overflows_noSeparator(data, currentChunk, k, m) ==
  ChunkLen(data, currentChunk) + ItemLen(data, k) > m

\* currentChunk.length + itemWithHeader.length + 2 > maxChunkSize
Overflows(data, currentChunk, k, m) ==
  ChunkLen(data, currentChunk) + ItemLen(data, k) + 2 > m

\* A plausible slip: the chunk being filled when the loop ends is dropped.
Flush_dropped(acc, currentChunk) == acc

\* if (currentChunk) chunks.push(currentChunk)
Flush(acc, currentChunk) ==
  IF currentChunk # <<>> THEN Append(acc, currentChunk) ELSE acc

RECURSIVE packRecords(_, _, _, _, _)
packRecords(data, k, acc, currentChunk, m) ==
  IF k > Len(data)
  THEN Flush(acc, currentChunk)
  ELSE IF Overflows(data, currentChunk, k, m)
       THEN packRecords(data, k + 1, Append(acc, currentChunk), <<k>>, m)
       ELSE packRecords(data, k + 1, acc, Append(currentChunk, k), m)

\* A plausible slip: nothing is packed, every record is a chunk of its own.
generateChunks_perRecord(data, m) == [k \in 1..Len(data) |-> <<k>>]

\* generateChunks on a JSON array of records.
generateChunks(data, m) == packRecords(data, 1, <<>>, <<>>, m)

\* The chunk positions (0-based, as in the ids) of the batch starting at i.
BatchOf(i, n, r) == {j \in 0..(n - 1) : i <= j /\ j < i + batchSize(r)}

\* A plausible slip: one failed chunk drops the whole batch.
embeddingsToUpsert_allOrNothing(batch, out) ==
  IF \A j \in batch : out[j + 1] = "ok" THEN batch ELSE {}

\* embeddingsResults.filter(result => result !== null), as ids.
embeddingsToUpsert(batch, out) == {j \in batch : out[j + 1] = "ok"}

\* A plausible slip: the run is reported as complete.
PipelineResult_allProcessed(count, n) ==
  [success |-> TRUE, chunksProcessed |-> n, totalChunks |-> n, error |-> Undefined]

\* { success: true, chunksProcessed: successCount, totalChunks: chunks.length }
PipelineResult(count, n) ==
  [success |-> TRUE, chunksProcessed |-> count, totalChunks |-> n, error |-> Undefined]

\* No result yet, and the error upsertEmbeddings rethrows.
NoResult == [success |-> FALSE, chunksProcessed |-> 0, totalChunks |-> 0, error |-> Undefined]
PipelineThrows(error) == [NoResult EXCEPT !.error = error]

\* The pipeline before upsertEmbeddings is called.
PipeIdle ==
  /\ records = <<>>
  /\ chunks = <<>>
  /\ ppc = "idle"
  /\ batchStart = 0
  /\ successCount = 0
  /\ outcome = <<>>
  /\ store = {}
  /\ upserts = <<>>
  /\ pipeResult = NoResult
  /\ maxChunkSize = DefaultMaxChunkSize

\* The status variable of an invocation that has read none.
NoStatus ==
  [isProcessing |-> FALSE, startTime |-> NoTime, progress |-> NoProgress,
   error |-> Undefined, lastUpdated |-> NoTime, userId |-> Undefined, locked |-> FALSE]

\* No server action has been invoked.
RunIdle ==
  /\ kind = [p \in Users |-> "none"]
  /\ pc = [p \in Users |-> "idle"]
  /\ sub = [p \in Users |-> "none"]
  /\ currentStatus = [p \in Users |-> NoStatus]
  /\ errorMessage = [p \in Users |-> Undefined]
  /\ result = [p \in Users |-> "none"]
  /\ started = [p \in Users |-> FALSE]

\* clearAllEmbeddings has not been called; the store is empty.
ClearIdle ==
  /\ vectorCount = 0
  /\ initialCount = 0
  /\ clpc = "idle"
  /\ found = 0
  /\ delI = 0
  /\ deletedCount = 0
  /\ queryLog = <<>>
  /\ deleteSizes = {}
  /\ clearResult = "none"

NoQuery == [text |-> "", keyword |-> FALSE, code |-> FALSE]
NoResponse == [status |-> 0, context |-> <<>>]
NoFindError == [message |-> "none", cause |-> "none"]

\* Neither findRelevantContent nor the chat handler has been called.
FindIdle ==
  /\ caller = "direct"
  /\ fquery = NoQuery
  /\ fk = 0
  /\ ranking = <<>>
  /\ fpc = "idle"
  /\ ftopK = 0
  /\ fcalls = <<>>
  /\ fresult = <<>>
  /\ ferror = NoFindError
  /\ response = NoResponse

\* No poll and no updateProgress is under way.
PollIdle ==
  /\ truncated = FALSE
  /\ wpc = "idle"
  /\ wbuf = NoStatus
  /\ wcount = 0
  /\ rpc = "idle"
  /\ polled = <<>>

\* No server action is under way; the store is empty.
IngIdle ==
  /\ indexDim = VECTOR_DIMENSIONS
  /\ storedDims = {}
  /\ newCount = 0
  /\ mutations = <<>>
  /\ aphase = "idle"
  /\ akind = "process"
  /\ aresult = "none"
  /\ routeCalls = 0
  /\ lastInfo = 0

\* upsertEmbeddings has not been called.
ReIdle == history = <<>> /\ rphase = "idle"

ExtIdle == PollIdle /\ IngIdle /\ ReIdle

\* The store's clients outside the ingestion pipeline are at rest.
SvcIdle == ClearIdle /\ FindIdle /\ ExtIdle

\* The embedding generator before any call.
EmbedIdle ==
  /\ rev = "lib"
  /\ native = VECTOR_DIMENSIONS
  /\ epc = "fn"
  /\ retries = 0
  /\ delay = initialDelay("lib")
  /\ attempts = <<>>
  /\ waits = <<>>
  /\ embedded = <<>>
  /\ thrown = NoError

\* ------------------------------------------------------------------------
\* Embedding generator: generateEmbedding over retryWithBackoff
\* ------------------------------------------------------------------------

EmbedInit ==
  /\ CoordIdle
  /\ PipeIdle
  /\ RunIdle
  /\ SvcIdle
  /\ rev \in Revisions
  /\ native \in NativeWidths
  /\ epc = "fn"
  /\ retries = 0
  /\ delay = initialDelay(rev)
  /\ attempts = <<>>
  /\ waits = <<>>
  /\ embedded = <<>>
  /\ thrown = NoError

\* `return await fn()` succeeds: retryWithBackoff and generateEmbedding return.
EmbedFnReturns ==
  /\ epc = "fn"
  /\ attempts' = Append(attempts, [ok |-> TRUE, error |-> {}])
  /\ embedded' = resizeEmbedding(rev, BackendValues(native))
  /\ epc' = "returned"
  /\ UNCHANGED <<coordVars, pipeVars, runVars, svcVars, rev, native, retries, delay, waits, thrown>>

\* fn() throws `error`: the catch block of retryWithBackoff.
EmbedFnThrows ==
  /\ epc = "fn"
  /\ \E error \in BackendErrors :
       /\ attempts' = Append(attempts, [ok |-> FALSE, error |-> error])
       /\ retries' = retries + 1
       /\ IF retries + 1 >= maxRetries(rev) \/ ~isRateLimitError(rev, error)
          THEN /\ epc' = "thrown"
               /\ thrown' = EmbeddingFailed(error)
          ELSE /\ epc' = "sleep"
               /\ thrown' = thrown
  /\ UNCHANGED <<coordVars, pipeVars, runVars, svcVars, rev, native, delay, waits, embedded>>

\* await new Promise(resolve => setTimeout(resolve, ...)); delay *= factor
EmbedSleep ==
  /\ epc = "sleep"
  /\ waits' = Append(waits, retryDelay(rev, attempts[Len(attempts)].error, delay))
  /\ delay' = delay * Factor
  /\ epc' = "fn"
  /\ UNCHANGED <<coordVars, pipeVars, runVars, svcVars, rev, native, retries, attempts, embedded, thrown>>

EmbedNext == EmbedFnReturns \/ EmbedFnThrows \/ EmbedSleep

EmbedSpec == EmbedInit /\ [][EmbedNext]_vars

\* C4: every vector generateEmbedding returns has exactly VECTOR_DIMENSIONS
\* elements, in both revisions, for every native width in {D/2, D, 2*D}.
C4_EmbeddingHasD == epc = "returned" => Len(embedded) = VECTOR_DIMENSIONS

\* An error outside the rate-limit class: its text has none of the markers.
NotRateLimitClass(a) == ~a.ok /\ a.error \cap Markers = {}

\* C10: retryWithBackoff retries only rate-limit-class errors.  A call of fn
\* that fails with an error outside that class is the last call: nothing is
\* awaited after it, the same error is rethrown and generateEmbedding surfaces
\* it as 'Failed to generate embedding'; when it is the first call, fn was
\* invoked exactly once and no delay was taken.
C10_FailFast ==
  \A i \in 1..Len(attempts) :
    NotRateLimitClass(attempts[i]) =>
      /\ i = Len(attempts)
      /\ Len(waits) = i - 1
      /\ epc = "thrown"
      /\ thrown = [kind |-> "Failed to generate embedding", cause |-> attempts[i].error]
      /\ embedded = <<>>

C10_Witness ==
  /\ epc = "thrown"
  /\ Len(attempts) = 1
  /\ NotRateLimitClass(attempts[1])
  /\ waits = <<>>

\* The scheduler runs the continuation of every settled promise and timer.
FairEmbedSpec == EmbedSpec /\ WF_vars(EmbedNext)

\* The number of fn() calls the claim allows: 3 as part_007 calls
\* retryWithBackoff, the default 5 in src/lib/upstash.ts.
RetryBudget == IF rev = "p7" THEN 3 ELSE 5

\* Every call of fn so far failed with an error carrying a rate-limit marker.
OnlyRateLimited ==
  \A i \in 1..Len(attempts) : ~attempts[i].ok /\ attempts[i].error \cap Markers # {}

\* C11: bounded retry.  fn is invoked at most maxRetries times and at most
\* maxRetries - 1 waits are taken; when the budget is used up on failures the
\* loop stops and generateEmbedding throws 'Failed to generate embedding';
\* and the retry loop always terminates.
C11_BoundedRetry ==
  /\ [](/\ Len(attempts) <= RetryBudget
        /\ Len(waits) <= RetryBudget - 1
        /\ (Len(attempts) = RetryBudget /\ ~attempts[RetryBudget].ok => epc = "thrown")
        /\ (OnlyRateLimited /\ epc = "thrown" =>
              /\ thrown.kind = "Failed to generate embedding"
              /\ embedded = <<>>))
  /\ <>(epc \in {"returned", "thrown"})

\* The whole budget was spent on rate-limit errors.
C11_Witness ==
  /\ epc = "thrown"
  /\ OnlyRateLimited
  /\ Len(attempts) = RetryBudget
  /\ Len(waits) = RetryBudget - 1
  /\ \A i \in 1..Len(attempts) : "429" \in attempts[i].error

\* The backend answered the call with HTTP 429.
RateLimited(a) == ~a.ok /\ "429" \in a.error

RECURSIVE SumSeq(_)
SumSeq(q) == IF q = <<>> THEN 0 ELSE Head(q) + SumSeq(Tail(q))

\* The sum of the first k backoff delays: initialDelay * factor^(i - 1).
RECURSIVE BackoffSum(_, _)
BackoffSum(k, d) == IF k = 0 THEN 0 ELSE d + BackoffSum(k - 1, d * Factor)

ProgressCalls ==
  {<<0, 100, "Clearing all data...">>, <<100, 100, "All data cleared successfully.">>}
ErrorMessages == {"No file provided"}

\* The coordinator functions that call getProcessingStatus.
StatusReaders ==
  {"getProcessingStatus", "isProcessLockedByOtherUser", "updateProgress",
   "setProcessingError", "endProcessing"}

Did(op, userId, ret) == lastOp' = [op |-> op, userId |-> userId, ret |-> ret]

CoordInit == CoordIdle /\ EmbedIdle /\ PipeIdle /\ RunIdle /\ SvcIdle

Tick ==
  /\ now < MaxNow
  /\ now' = now + 1
  /\ Did("tick", Undefined, "none")
  /\ UNCHANGED <<statusFile, lockFile, cpc, pending, embedVars, pipeVars, runVars, svcVars>>

InitProcessingStatus ==
  /\ cpc = "ready"
  /\ statusFile' = <<InitStatus(now)>>
  /\ Did("initProcessingStatus", Undefined, "returns")
  /\ UNCHANGED <<lockFile, now, cpc, pending, embedVars, pipeVars, runVars, svcVars>>

TryAcquireLock(userId) ==
  /\ cpc = "ready"
  /\ lockFile' = tryAcquireLockFile(lockFile, userId, now)
  /\ Did("tryAcquireLock", userId,
         IF tryAcquireLockRet(lockFile, userId, now) THEN "true" ELSE "false")
  /\ UNCHANGED <<statusFile, now, cpc, pending, embedVars, pipeVars, runVars, svcVars>>

ReleaseLock(userId) ==
  /\ cpc = "ready"
  /\ lockFile' = releaseLockFile(lockFile, userId)
  /\ Did("releaseLock", userId,
         IF lockFile = <<>> \/ lockFile[1].userId = userId THEN "true" ELSE "false")
  /\ UNCHANGED <<statusFile, now, cpc, pending, embedVars, pipeVars, runVars, svcVars>>

\* startProcessing(userId): throws when tryAcquireLock answers false, else
\* writes the status.
StartProcessing(userId) ==
  /\ cpc = "ready"
  /\ lockFile' = tryAcquireLockFile(lockFile, userId, now)
  /\ IF tryAcquireLockRet(lockFile, userId, now)
     THEN /\ statusFile' = <<StartStatus(userId, now)>>
          /\ Did("startProcessing", userId, "returns")
     ELSE /\ statusFile' = statusFile
          /\ Did("startProcessing", userId, "throws")
  /\ UNCHANGED <<now, cpc, pending, embedVars, pipeVars, runVars, svcVars>>

\* getProcessingStatus on a record that is not stale.
GetProcessingStatus ==
  /\ cpc = "ready"
  /\ ~StaleFile(statusFile, now)
  /\ statusFile' = <<Fetch(statusFile, now)>>
  /\ Did("getProcessingStatus", Undefined, "returns")
  /\ UNCHANGED <<lockFile, now, cpc, pending, embedVars, pipeVars, runVars, svcVars>>

IsProcessLockedByOtherUser(currentUserId) ==
  /\ cpc = "ready"
  /\ ~StaleFile(statusFile, now)
  /\ statusFile' = <<Fetch(statusFile, now)>>
  /\ Did("isProcessLockedByOtherUser", currentUserId,
         IF LockedByOther(Fetch(statusFile, now), currentUserId) THEN "true" ELSE "false")
  /\ UNCHANGED <<lockFile, now, cpc, pending, embedVars, pipeVars, runVars, svcVars>>

UpdateProgress(current, total, message) ==
  /\ cpc = "ready"
  /\ ~StaleFile(statusFile, now)
  /\ statusFile' = <<ProgressStatus(Fetch(statusFile, now), current, total, message, now)>>
  /\ Did("updateProgress", Undefined, "returns")
  /\ UNCHANGED <<lockFile, now, cpc, pending, embedVars, pipeVars, runVars, svcVars>>

SetProcessingError(error) ==
  /\ cpc = "ready"
  /\ ~StaleFile(statusFile, now)
  /\ statusFile' = <<ErrorStatus(Fetch(statusFile, now), error, now)>>
  /\ lockFile' = releaseIfUser(lockFile, Fetch(statusFile, now).userId)
  /\ Did("setProcessingError", Undefined, "returns")
  /\ UNCHANGED <<now, cpc, pending, embedVars, pipeVars, runVars, svcVars>>

EndProcessing ==
  /\ cpc = "ready"
  /\ ~StaleFile(statusFile, now)
  /\ statusFile' = <<EndStatus(now)>>
  /\ lockFile' = releaseIfUser(lockFile, Fetch(statusFile, now).userId)
  /\ Did("endProcessing", Undefined, "returns")
  /\ UNCHANGED <<now, cpc, pending, embedVars, pipeVars, runVars, svcVars>>

\* A function that calls getProcessingStatus is called while the record is
\* stale: getProcessingStatus releases the lock of status.userId and calls
\* setProcessingError("Processing timed out after 30 minutes").
CallOnStale(op) ==
  /\ cpc = "ready"
  /\ StaleFile(statusFile, now)
  /\ lockFile' = releaseIfUser(lockFile, statusFile[1].userId)
  /\ cpc' = "spe"
  /\ pending' = op
  /\ Did(op, Undefined, "pending")
  /\ UNCHANGED <<statusFile, now, embedVars, pipeVars, runVars, svcVars>>

\* setProcessingError, before it writes anything:
\* `currentStatus = await getProcessingStatus()`.
SpeCallsGet ==
  /\ cpc = "spe"
  /\ cpc' = "gps"
  /\ Did("setProcessingError", Undefined, "pending")
  /\ UNCHANGED <<statusFile, lockFile, now, pending, embedVars, pipeVars, runVars, svcVars>>

\* The nested getProcessingStatus reads the file, which nobody has written
\* since: the record is as stale as before, and setProcessingError is called again.
GpsStale ==
  /\ cpc = "gps"
  /\ StaleFile(statusFile, now)
  /\ lockFile' = releaseIfUser(lockFile, statusFile[1].userId)
  /\ cpc' = "spe"
  /\ Did("getProcessingStatus", Undefined, "pending")
  /\ UNCHANGED <<statusFile, now, pending, embedVars, pipeVars, runVars, svcVars>>

CoordNext ==
  \/ Tick
  \/ InitProcessingStatus
  \/ \E u \in Users : TryAcquireLock(u)
  \/ \E u \in Users : ReleaseLock(u)
  \/ \E u \in Users : StartProcessing(u)
  \/ GetProcessingStatus
  \/ \E u \in Users : IsProcessLockedByOtherUser(u)
  \/ \E c \in ProgressCalls : UpdateProgress(c[1], c[2], c[3])
  \/ \E e \in ErrorMessages : SetProcessingError(e)
  \/ EndProcessing
  \/ \E op \in StatusReaders : CallOnStale(op)
  \/ SpeCallsGet
  \/ GpsStale

CoordSpec == CoordInit /\ [][CoordNext]_vars

\* The event loop runs every continuation that is ready.
FairCoordSpec == CoordSpec /\ WF_vars(SpeCallsGet) /\ WF_vars(GpsStale)

\* A lock that is not expired is held by a user other than u.
FreshLockOfOther(lf, u, t) ==
  lf # <<>> /\ lf[1].userId # u /\ t - lf[1].timestamp <= LOCK_TTL

\* C5: startProcessing(u) throws and persists nothing when a lock that is not
\* expired is held by a different user; otherwise it persists a status with
\* isProcessing = true, startTime = now, progress {0, 0}, userId = u,
\* locked = true, and the lock is owned by u when it returns.
C5_StartProcessing ==
  [][lastOp'.op = "startProcessing" =>
       LET u == lastOp'.userId IN
       IF FreshLockOfOther(lockFile, u, now)
       THEN /\ lastOp'.ret = "throws"
            /\ statusFile' = statusFile
            /\ lockFile' = lockFile
       ELSE /\ lastOp'.ret = "returns"
            /\ statusFile' # <<>>
            /\ statusFile'[1].isProcessing
            /\ statusFile'[1].startTime = now
            /\ statusFile'[1].progress.current = 0
            /\ statusFile'[1].progress.total = 0
            /\ statusFile'[1].userId = u
            /\ statusFile'[1].locked
            /\ lockFile' # <<>>
            /\ lockFile'[1].userId = u]_vars

\* startProcessing has just thrown: the lock of another user, exactly as old
\* as the TTL, and the status of that user's run are still there.
C5_Witness ==
  /\ lastOp.op = "startProcessing"
  /\ lastOp.ret = "throws"
  /\ FreshLockOfOther(lockFile, lastOp.userId, now)
  /\ now - lockFile[1].timestamp = LOCK_TTL
  /\ statusFile # <<>>
  /\ statusFile[1].isProcessing
  /\ statusFile[1].userId = lockFile[1].userId

\* C6: tryAcquireLock(u) returns true exactly when no lock exists, the lock is
\* owned by u, or the lock's timestamp is more than 5 minutes old; otherwise it
\* returns false and leaves the lock unchanged.  A fresh lock of u1 makes
\* tryAcquireLock(u2) fail; once the TTL has elapsed it succeeds and the lock
\* passes to u2.
C6_TryAcquireLock ==
  [][lastOp'.op = "tryAcquireLock" =>
       LET u == lastOp'.userId IN
       IF FreshLockOfOther(lockFile, u, now)
       THEN /\ lastOp'.ret = "false"
            /\ lockFile' = lockFile
       ELSE /\ lastOp'.ret = "true"
            /\ lockFile' # <<>>
            /\ lockFile'[1].userId = u
            /\ (lockFile # <<>> /\ lockFile[1].userId # u) =>
                 lockFile' = <<[userId |-> u, timestamp |-> now]>>]_vars

\* tryAcquireLock has just taken over an expired lock while the status still
\* names the previous owner's run.
C6_Witness ==
  /\ lastOp.op = "tryAcquireLock"
  /\ lastOp.ret = "true"
  /\ lockFile # <<>>
  /\ lockFile[1] = [userId |-> lastOp.userId, timestamp |-> now]
  /\ statusFile # <<>>
  /\ statusFile[1].isProcessing
  /\ statusFile[1].userId \in Users \ {lastOp.userId}
  /\ now - statusFile[1].startTime = LOCK_TTL + 1

\* C2: a call of getProcessingStatus on a record that has been Processing for
\* more than 30 minutes returns, having persisted isProcessing = false and the
\* timed-out error and released the lock of the record's user.
C2_StaleReclaimed ==
  (pending = "getProcessingStatus") ~>
    /\ pending = "none"
    /\ statusFile # <<>>
    /\ ~statusFile[1].isProcessing
    /\ statusFile[1].error = TimedOutMessage
    /\ (lockFile = <<>> \/ lockFile[1].userId # statusFile[1].userId)

\* C3: every call of a coordinator function returns after finitely many steps.
C3_CallsReturn == []<>(cpc = "ready")


\* ------------------------------------------------------------------------
\* PipeSpec: one call of upsertEmbeddings(resourceId, content) inside a run
\* that holds the lock, in either revision.  Each chunk's embedding call is
\* started with its batch and settles on its own; the store may refuse an
\* upsert.  The call lasts far less than one unit of the clock.
\* ------------------------------------------------------------------------

MaxRecords == 6

\* Lengths of a record's text, so that its rendering with the "Item k:\n"
\* header has 300 or 2000 characters.
RecordTextLens == {292, 1992}

RecordArrays == UNION {[1..n -> RecordTextLens] : n \in 0..MaxRecords}

RunOwner == "u1"

\* Whether the loop `for (i = 0; i < chunks.length; i += batchSize)` goes on.
LoopOrFinal(i, n) == IF i < n THEN "batch" ELSE "final"

PipeInit ==
  /\ RunIdle
  /\ SvcIdle
  /\ rev \in Revisions
  /\ native = VECTOR_DIMENSIONS
  /\ epc = "fn"
  /\ retries = 0
  /\ delay = initialDelay(rev)
  /\ attempts = <<>>
  /\ waits = <<>>
  /\ embedded = <<>>
  /\ thrown = NoError
  /\ statusFile = <<ProgressStatus(StartStatus(RunOwner, 1), 30, 100,
                                   "Existing data cleared. Processing new data...", 1)>>
  /\ lockFile = <<NewLock(RunOwner, 1)>>
  /\ now = 1
  /\ cpc = "ready"
  /\ pending = "none"
  /\ lastOp = [op |-> "updateProgress", userId |-> Undefined, ret |-> "returns"]
  /\ records \in RecordArrays
  /\ chunks = <<>>
  /\ ppc = "called"
  /\ batchStart = 0
  /\ successCount = 0
  /\ outcome = <<>>
  /\ store = {}
  /\ upserts = <<>>
  /\ pipeResult = NoResult
  /\ maxChunkSize = DefaultMaxChunkSize

\* generateChunks(content); updateProgress(0, chunks.length, "Preparing ...")
PipeBegin ==
  /\ ppc = "called"
  /\ chunks' = generateChunks(records, DefaultMaxChunkSize)
  /\ outcome' = [j \in 1..Len(chunks') |-> "waiting"]
  /\ statusFile' = <<ProgressStatus(Fetch(statusFile, now), 0, Len(chunks'),
                                    "Preparing to process chunks...", now)>>
  /\ ppc' = LoopOrFinal(0, Len(chunks'))
  /\ UNCHANGED <<svcVars, maxChunkSize, runVars, embedVars, lockFile, now, cpc, pending, lastOp, records, batchStart,
                 successCount, store, upserts, pipeResult>>

\* updateProgress(i, chunks.length, "Processing chunks ..."); batch.map(async ...) starts
\* the embedding call of every chunk of the batch.
PipeStartBatch ==
  /\ ppc = "batch"
  /\ statusFile' = <<ProgressStatus(Fetch(statusFile, now), batchStart, Len(chunks),
                                    "Processing chunks...", now)>>
  /\ outcome' = [j \in 1..Len(chunks) |->
                   IF (j - 1) \in BatchOf(batchStart, Len(chunks), rev)
                   THEN "pending" ELSE outcome[j]]
  /\ ppc' = "embedding"
  /\ UNCHANGED <<svcVars, maxChunkSize, runVars, embedVars, lockFile, now, cpc, pending, lastOp, records, chunks, batchStart,
                 successCount, store, upserts, pipeResult>>

\* generateEmbedding(chunk) returns: successCount++ and the vector is kept.
PipeEmbedOk(j) ==
  /\ ppc = "embedding"
  /\ j \in BatchOf(batchStart, Len(chunks), rev)
  /\ outcome[j + 1] = "pending"
  /\ outcome' = [outcome EXCEPT ![j + 1] = "ok"]
  /\ successCount' = successCount + 1
  /\ UNCHANGED <<svcVars, maxChunkSize, runVars, embedVars, coordVars, records, chunks, ppc, batchStart, store, upserts,
                 pipeResult>>

\* generateEmbedding(chunk) throws: the chunk's catch returns null.
PipeEmbedFails(j) ==
  /\ ppc = "embedding"
  /\ j \in BatchOf(batchStart, Len(chunks), rev)
  /\ outcome[j + 1] = "pending"
  /\ outcome' = [outcome EXCEPT ![j + 1] = "failed"]
  /\ UNCHANGED <<svcVars, maxChunkSize, runVars, embedVars, coordVars, records, chunks, ppc, batchStart, successCount, store,
                 upserts, pipeResult>>

\* A plausible slip: the upsert does not wait for the whole batch
\* (Promise.race in place of Promise.all).
BatchSettled_any ==
  /\ ppc = "embedding"
  /\ \E j \in BatchOf(batchStart, Len(chunks), rev) : outcome[j + 1] # "pending"

\* Promise.all has settled.
BatchSettled ==
  /\ ppc = "embedding"
  /\ \A j \in BatchOf(batchStart, Len(chunks), rev) : outcome[j + 1] # "pending"

\* A plausible slip: index.upsert is called even with nothing to upsert.
PipeUpsert_always ==
  /\ BatchSettled
  /\ LET ids == embeddingsToUpsert(BatchOf(batchStart, Len(chunks), rev), outcome)
     IN /\ store' = store \cup ids
        /\ upserts' = Append(upserts, ids)
  /\ batchStart' = batchStart + batchSize(rev)
  /\ ppc' = LoopOrFinal(batchStart', Len(chunks))
  /\ UNCHANGED <<svcVars, maxChunkSize, runVars, embedVars, coordVars, records, chunks, successCount, outcome, pipeResult>>

\* index.upsert(embeddingsToUpsert) succeeds, or nothing is left to upsert; then the
\* delay between batches and i += batchSize.
PipeUpsert ==
  /\ BatchSettled
  /\ LET ids == embeddingsToUpsert(BatchOf(batchStart, Len(chunks), rev), outcome)
     IN /\ store' = store \cup ids
        /\ upserts' = IF ids # {} THEN Append(upserts, ids) ELSE upserts
  /\ batchStart' = batchStart + batchSize(rev)
  /\ ppc' = LoopOrFinal(batchStart', Len(chunks))
  /\ UNCHANGED <<svcVars, maxChunkSize, runVars, embedVars, coordVars, records, chunks, successCount, outcome, pipeResult>>

\* index.upsert(embeddingsToUpsert) throws: the outer catch rethrows.
PipeUpsertThrows ==
  /\ BatchSettled
  /\ embeddingsToUpsert(BatchOf(batchStart, Len(chunks), rev), outcome) # {}
  /\ ppc' = "thrown"
  /\ pipeResult' = PipelineThrows("upsert failed")
  /\ UNCHANGED <<svcVars, maxChunkSize, runVars, embedVars, coordVars, records, chunks, batchStart, successCount, outcome,
                 store, upserts>>

\* updateProgress(chunks.length, chunks.length, "Completed ..."); return.
PipeReturn ==
  /\ ppc = "final"
  /\ statusFile' = <<ProgressStatus(Fetch(statusFile, now), Len(chunks), Len(chunks),
                                    "Completed processing chunks.", now)>>
  /\ pipeResult' = PipelineResult(successCount, Len(chunks))
  /\ ppc' = "returned"
  /\ UNCHANGED <<svcVars, maxChunkSize, runVars, embedVars, lockFile, now, cpc, pending, lastOp, records, chunks, batchStart,
                 successCount, outcome, store, upserts>>

PipeNext ==
  \/ PipeBegin
  \/ PipeStartBatch
  \/ \E j \in 0..(MaxRecords + 1) : PipeEmbedOk(j)
  \/ \E j \in 0..(MaxRecords + 1) : PipeEmbedFails(j)
  \/ PipeUpsert
  \/ PipeUpsertThrows
  \/ PipeReturn

PipeSpec == PipeInit /\ [][PipeNext]_vars


\* ------------------------------------------------------------------------
\* Claims on the pipeline
\* ------------------------------------------------------------------------

Failed == {j \in 0..(Len(chunks) - 1) : outcome[j + 1] = "failed"}
Succeeded == {j \in 0..(Len(chunks) - 1) : outcome[j + 1] = "ok"}

\* C8: a failed embedding of one chunk is absorbed.  For every batch already
\* handled the store holds exactly the chunks whose embedding succeeded (the
\* failed one is left out, its batch mates are upserted); when the call has
\* returned every chunk of every batch was attempted and every success is
\* stored; and the call throws only when the store refuses an upsert that
\* carries at least one vector, never because embeddings failed.
C8_FailureAbsorbed ==
  /\ \A j \in 0..(Len(chunks) - 1) :
       j < batchStart => /\ outcome[j + 1] \in {"ok", "failed"}
                         /\ (j \in store) = (outcome[j + 1] = "ok")
  /\ ppc = "returned" => /\ batchStart >= Len(chunks)
                         /\ store = Succeeded
  /\ ppc = "thrown" => /\ pipeResult.error = "upsert failed"
                       /\ BatchOf(batchStart, Len(chunks), rev) \cap Succeeded # {}

\* A returned call in which a chunk of the first batch failed, a chunk of the
\* same batch was upserted and a chunk of a later batch was upserted too.
C8_Witness ==
  /\ ppc = "returned"
  /\ \E j, k \in BatchOf(0, Len(chunks), rev) :
       /\ j \in Failed /\ j \notin store
       /\ k \in Succeeded /\ k \in store
  /\ \E l \in store : l >= batchSize(rev)

RECURSIVE VectorsUpserted(_)
VectorsUpserted(calls) ==
  IF calls = <<>> THEN 0 ELSE Cardinality(Head(calls)) + VectorsUpserted(Tail(calls))

\* C9: on return totalChunks is the number of chunks generateChunks produced,
\* chunksProcessed is the number of chunks embedded successfully and the number
\* of vectors handed to index.upsert, it lies between 0 and totalChunks, the
\* result is success=true even when chunks were dropped, and nothing is
\* dropped when no embedding fails.
C9_ProgressAccounting ==
  ppc = "returned" =>
    /\ pipeResult.totalChunks = Len(generateChunks(records, DefaultMaxChunkSize))
    /\ pipeResult.chunksProcessed = Cardinality(Succeeded)
    /\ pipeResult.chunksProcessed = VectorsUpserted(upserts)
    /\ 0 <= pipeResult.chunksProcessed
    /\ pipeResult.chunksProcessed <= pipeResult.totalChunks
    /\ pipeResult.success
    /\ (Failed = {} => pipeResult.chunksProcessed = pipeResult.totalChunks)

\* A returned call that dropped some chunks and kept others.
C9_Witness ==
  /\ ppc = "returned"
  /\ pipeResult.success
  /\ 0 < pipeResult.chunksProcessed
  /\ pipeResult.chunksProcessed < pipeResult.totalChunks
  /\ Failed # {}


\* ------------------------------------------------------------------------
\* Spec: the server actions processInventoryData and clearAllData, one
\* invocation per user, each with its own fresh user id, interleaved at
\* every file operation of the coordinator (each `await` on tmp/).  The
\* invocations last less than one unit of the clock.
\* ------------------------------------------------------------------------

ActionKinds == {"process", "clear"}

\* Statements that are a call of updateProgress.
ProgressStages ==
  {"progress0", "progress10", "progress20", "progress30", "progressPipe", "progress100"}

\* Statements that are a call of setProcessingError: the outer catch, the
\* input checks, the catch around upsertEmbeddings.
ErrorStages == {"catch", "inputError", "innerCatch"}

\* Statements between the return of startProcessing and the call of
\* endProcessing or setProcessingError.
WorkStages == ProgressStages \cup {"setup", "input", "parse", "clear", "upsert"}

\* Statements whose coordinator call begins with getProcessingStatus.
ReadsStatus == ProgressStages \cup ErrorStages \cup {"check", "locked", "end"}

\* The first file operation of the statement.
FirstSub(stage) ==
  IF stage \in ReadsStatus THEN "gps"
  ELSE IF stage = "start" THEN "talExists" ELSE "none"

\* The arguments of the updateProgress call at the statement; the pipeline's
\* own progress calls are represented by its first.
ProgressArgs(stage, k) ==
  IF stage = "progress0"
  THEN [current |-> 0, total |-> 100,
        message |-> IF k = "process" THEN "Setting up vector index..."
                    ELSE "Clearing all data..."]
  ELSE IF stage = "progress10"
  THEN [current |-> 10, total |-> 100, message |-> "Parsing file..."]
  ELSE IF stage = "progress20"
  THEN [current |-> 20, total |-> 100, message |-> "Parsed records, preparing to clear existing data..."]
  ELSE IF stage = "progress30"
  THEN [current |-> 30, total |-> 100,
        message |-> "Existing data cleared, preparing to generate embeddings..."]
  ELSE IF stage = "progressPipe"
  THEN [current |-> 0, total |-> 1, message |-> "Preparing to process chunks..."]
  ELSE [current |-> 100, total |-> 100,
        message |-> IF k = "process" THEN "Successfully processed chunks."
                    ELSE "All data cleared successfully."]

\* The statement after one that returned normally.
NextStage(stage, k) ==
  IF stage = "start" THEN (IF k = "process" THEN "setup" ELSE "progress0")
  ELSE IF stage = "setup" THEN "progress0"
  ELSE IF stage = "progress0" THEN (IF k = "process" THEN "input" ELSE "clear")
  ELSE IF stage = "input" THEN "progress10"
  ELSE IF stage = "progress10" THEN "parse"
  ELSE IF stage = "parse" THEN "progress20"
  ELSE IF stage = "progress20" THEN "clear"
  ELSE IF stage = "clear" THEN (IF k = "process" THEN "progress30" ELSE "progress100")
  ELSE IF stage = "progress30" THEN "progressPipe"
  ELSE IF stage = "progressPipe" THEN "upsert"
  ELSE IF stage = "upsert" THEN "progress100"
  ELSE "end"

NoFile == "No file provided"
UnsupportedType == "Unsupported file type. Please upload a CSV or Excel file."
NoData == "The file contains no data."
IndexError == "index unreachable"
StoreError == "store unreachable"
EmbeddingError == "Encountered an error during embedding: store unreachable."

Set(p, stage, s, r) ==
  /\ pc' = [pc EXCEPT ![p] = stage]
  /\ sub' = [sub EXCEPT ![p] = s]
  /\ result' = [result EXCEPT ![p] = r]

Goto(p, stage) == Set(p, stage, FirstSub(stage), result[p])
Stay(p, s) == Set(p, pc[p], s, result[p])
Exit(p, r) == Set(p, "done", "none", r)

\* throw: control passes to the outer catch with the error's message.
Throw(p, message) ==
  /\ Goto(p, "catch")
  /\ errorMessage' = [errorMessage EXCEPT ![p] = message]

Forget(p) == currentStatus' = [currentStatus EXCEPT ![p] = NoStatus]

files == <<statusFile, lockFile>>
others == <<svcVars, embedVars, pipeVars, now, cpc, pending, lastOp>>

Init == CoordIdle /\ EmbedIdle /\ PipeIdle /\ RunIdle /\ SvcIdle

\* const userId = generateUserId(); the action begins with getProcessingStatus().
Invoke(p, k) ==
  /\ pc[p] = "idle"
  /\ kind' = [kind EXCEPT ![p] = k]
  /\ Goto(p, "check")
  /\ UNCHANGED <<currentStatus, errorMessage, started, files, others>>

\* A plausible slip: the action does not look at isProcessing before it starts.
GpsReturns_unchecked(p, s) ==
  IF pc[p] = "check"
  THEN /\ Goto(p, "locked")
       /\ UNCHANGED currentStatus
  ELSE IF pc[p] = "locked"
  THEN /\ IF LockedByOther(s, p) THEN Exit(p, "rejected") ELSE Goto(p, "start")
       /\ UNCHANGED currentStatus
  ELSE /\ Stay(p, "write")
       /\ currentStatus' = [currentStatus EXCEPT ![p] = s]

\* getProcessingStatus returns s to the statement that called it.
GpsReturns(p, s) ==
  IF pc[p] = "check"
  THEN /\ IF s.isProcessing THEN Exit(p, "rejected") ELSE Goto(p, "locked")
       /\ UNCHANGED currentStatus
  ELSE IF pc[p] = "locked"
  THEN /\ IF LockedByOther(s, p) THEN Exit(p, "rejected") ELSE Goto(p, "start")
       /\ UNCHANGED currentStatus
  ELSE /\ Stay(p, "write")
       /\ currentStatus' = [currentStatus EXCEPT ![p] = s]

\* getProcessingStatus: existsSync and readFile of the status file.
ReadStatus(p) ==
  /\ sub[p] = "gps"
  /\ ~StaleFile(statusFile, now)
  /\ IF statusFile = <<>>
     THEN Stay(p, "gpsInit") /\ UNCHANGED currentStatus
     ELSE GpsReturns(p, statusFile[1])
  /\ UNCHANGED <<kind, errorMessage, started, files, others>>

\* getProcessingStatus found no file: initProcessingStatus writes one.
InitMissingStatus(p) ==
  /\ sub[p] = "gpsInit"
  /\ statusFile' = <<InitStatus(now)>>
  /\ GpsReturns(p, InitStatus(now))
  /\ UNCHANGED <<kind, errorMessage, started, lockFile, others>>

\* What follows `if (userId) await releaseLock(userId)` in endProcessing and
\* setProcessingError.
AfterRelease(p) ==
  /\ IF pc[p] = "end" THEN Exit(p, "success")
     ELSE IF pc[p] = "catch" THEN Exit(p, "thrown")
     ELSE IF pc[p] = "innerCatch" THEN Exit(p, "failure")
     ELSE Goto(p, "catch")
  /\ Forget(p)

\* The writeFile of the status file in startProcessing, updateProgress,
\* endProcessing and setProcessingError.
WriteStatus(p) ==
  /\ sub[p] = "write"
  /\ statusFile' =
       <<IF pc[p] = "start" THEN StartStatus(p, now)
         ELSE IF pc[p] \in ProgressStages
         THEN ProgressStatus(currentStatus[p], ProgressArgs(pc[p], kind[p]).current,
                             ProgressArgs(pc[p], kind[p]).total,
                             ProgressArgs(pc[p], kind[p]).message, now)
         ELSE IF pc[p] = "end" THEN EndStatus(now)
         ELSE ErrorStatus(currentStatus[p], errorMessage[p], now)>>
  /\ started' = [started EXCEPT ![p] = @ \/ pc[p] = "start"]
  /\ IF pc[p] = "start" \/ pc[p] \in ProgressStages
     THEN Goto(p, NextStage(pc[p], kind[p])) /\ Forget(p)
     ELSE IF currentStatus[p].userId # Undefined
     THEN Stay(p, "rlExists") /\ UNCHANGED currentStatus
     ELSE AfterRelease(p)
  /\ UNCHANGED <<kind, errorMessage, lockFile, others>>

\* releaseLock: fs.existsSync(lockFilePath)
ReleaseExists(p) ==
  /\ sub[p] = "rlExists"
  /\ IF lockFile = <<>>
     THEN AfterRelease(p)
     ELSE Stay(p, "rlRead") /\ UNCHANGED currentStatus
  /\ UNCHANGED <<kind, errorMessage, started, files, others>>

\* releaseLock: readFile and the owner test; a file unlinked in between
\* makes readFile throw, which releaseLock catches.
ReleaseRead(p) ==
  /\ sub[p] = "rlRead"
  /\ IF lockFile # <<>> /\ lockFile[1].userId = currentStatus[p].userId
     THEN Stay(p, "rlUnlink") /\ UNCHANGED currentStatus
     ELSE AfterRelease(p)
  /\ UNCHANGED <<kind, errorMessage, started, files, others>>

\* releaseLock: unlink, whatever the file holds by now.
ReleaseUnlink(p) ==
  /\ sub[p] = "rlUnlink"
  /\ lockFile' = <<>>
  /\ AfterRelease(p)
  /\ UNCHANGED <<kind, errorMessage, started, statusFile, others>>

\* tryAcquireLock: fs.existsSync(lockFilePath)
AcquireExists(p) ==
  /\ sub[p] = "talExists"
  /\ Stay(p, IF lockFile = <<>> THEN "talWrite" ELSE "talRead")
  /\ UNCHANGED <<kind, currentStatus, errorMessage, started, files, others>>

\* tryAcquireLock: readFile, the expiry test and the owner test; false makes
\* startProcessing throw.
AcquireRead(p) ==
  /\ sub[p] = "talRead"
  /\ IF lockFile = <<>>
     THEN Throw(p, CannotStart)
     ELSE IF LockExpired(lockFile[1], now)
     THEN Stay(p, "talWrite") /\ UNCHANGED errorMessage
     ELSE IF lockFile[1].userId = p
     THEN Stay(p, "write") /\ UNCHANGED errorMessage
     ELSE Throw(p, CannotStart)
  /\ UNCHANGED <<kind, currentStatus, started, files, others>>

\* tryAcquireLock: writeFile of the new lock; startProcessing goes on to its
\* own writeFile.
AcquireWrite(p) ==
  /\ sub[p] = "talWrite"
  /\ lockFile' = <<NewLock(p, now)>>
  /\ Stay(p, "write")
  /\ UNCHANGED <<kind, currentStatus, errorMessage, started, statusFile, others>>

\* await setupVectorIndex(): returns, or rethrows what the store threw.
SetupVectorIndex(p, ok) ==
  /\ pc[p] = "setup"
  /\ IF ok THEN Goto(p, NextStage("setup", kind[p])) /\ UNCHANGED errorMessage
     ELSE Throw(p, IndexError)
  /\ UNCHANGED <<kind, currentStatus, started, files, others>>

\* if (!file) { await setProcessingError("No file provided"); throw ... }
CheckFile(p, ok) ==
  /\ pc[p] = "input"
  /\ IF ok THEN Goto(p, NextStage("input", kind[p])) /\ UNCHANGED errorMessage
     ELSE /\ Goto(p, "inputError")
          /\ errorMessage' = [errorMessage EXCEPT ![p] = NoFile]
  /\ UNCHANGED <<kind, currentStatus, started, files, others>>

\* The file type test and the `data.length === 0` test.
ParseFile(p, e) ==
  /\ pc[p] = "parse"
  /\ IF e = Undefined THEN Goto(p, NextStage("parse", kind[p])) /\ UNCHANGED errorMessage
     ELSE /\ Goto(p, "inputError")
          /\ errorMessage' = [errorMessage EXCEPT ![p] = e]
  /\ UNCHANGED <<kind, currentStatus, started, files, others>>

\* await clearAllEmbeddings(): returns, or rethrows what the store threw.
ClearAllEmbeddings(p, ok) ==
  /\ pc[p] = "clear"
  /\ IF ok THEN Goto(p, NextStage("clear", kind[p])) /\ UNCHANGED errorMessage
     ELSE Throw(p, StoreError)
  /\ UNCHANGED <<kind, currentStatus, started, files, others>>

\* await upsertEmbeddings(...): returns, or throws into the catch around it.
UpsertEmbeddings(p, ok) ==
  /\ pc[p] = "upsert"
  /\ IF ok THEN Goto(p, NextStage("upsert", kind[p])) /\ UNCHANGED errorMessage
     ELSE /\ Goto(p, "innerCatch")
          /\ errorMessage' = [errorMessage EXCEPT ![p] = EmbeddingError]
  /\ UNCHANGED <<kind, currentStatus, started, files, others>>

Next ==
  \E p \in Users :
    \/ \E k \in ActionKinds : Invoke(p, k)
    \/ ReadStatus(p)
    \/ InitMissingStatus(p)
    \/ WriteStatus(p)
    \/ ReleaseExists(p)
    \/ ReleaseRead(p)
    \/ ReleaseUnlink(p)
    \/ AcquireExists(p)
    \/ AcquireRead(p)
    \/ AcquireWrite(p)
    \/ \E ok \in BOOLEAN : SetupVectorIndex(p, ok)
    \/ \E ok \in BOOLEAN : CheckFile(p, ok)
    \/ \E e \in {Undefined, UnsupportedType, NoData} : ParseFile(p, e)
    \/ \E ok \in BOOLEAN : ClearAllEmbeddings(p, ok)
    \/ \E ok \in BOOLEAN : UpsertEmbeddings(p, ok)

Spec == Init /\ [][Next]_vars


\* ------------------------------------------------------------------------
\* Claims on the server actions
\* ------------------------------------------------------------------------

\* The invocation is between the return of its startProcessing and the call
\* of its endProcessing or setProcessingError.
Running(p) == started[p] /\ pc[p] \in WorkStages

\* C1: single writer.  In every interleaving of the server actions at most
\* one invocation is between a successful startProcessing and its
\* endProcessing or setProcessingError.
C1_SingleWriter == Cardinality({p \in Users : Running(p)}) <= 1

\* The step is the return (or the throw) of the action of p, whose
\* startProcessing had succeeded.
Exits(p) == started[p] /\ pc[p] # "done" /\ pc'[p] = "done"

\* C7: every exit of an action after its startProcessing succeeded leaves the
\* persisted status with isProcessing = false and no lock of that run's user;
\* an exit caused by a failure gives the caller a failure and leaves a
\* non-empty error in the persisted status.
C7_ExitLeavesIdle ==
  [][\A p \in Users :
       Exits(p) =>
         /\ statusFile' # <<>>
         /\ ~statusFile'[1].isProcessing
         /\ (lockFile' = <<>> \/ lockFile'[1].userId # p)
         /\ (errorMessage[p] # Undefined =>
               /\ result'[p] \in {"failure", "thrown"}
               /\ statusFile'[1].error \notin {Undefined, ""})]_vars


\* ------------------------------------------------------------------------
\* ChunkSpec: one call of generateChunks(input, maxChunkSize) on a JSON
\* array of records.
\* ------------------------------------------------------------------------

MaxChunkRecords == 7

\* Lengths of a record's text whose rendering has 300, 1000 or 2500 characters.
ChunkTextLens == {292, 992, 2492}

\* Values of maxChunkSize: the default and two smaller ones.
ChunkSizes == {300, 1000, DefaultMaxChunkSize}

ChunkInputs == UNION {[1..n -> ChunkTextLens] : n \in 0..MaxChunkRecords}

ChunkInit ==
  /\ CoordIdle /\ EmbedIdle /\ RunIdle /\ SvcIdle
  /\ records \in ChunkInputs
  /\ maxChunkSize \in ChunkSizes
  /\ chunks = <<>>
  /\ ppc = "chunking"
  /\ batchStart = 0
  /\ successCount = 0
  /\ outcome = <<>>
  /\ store = {}
  /\ upserts = <<>>
  /\ pipeResult = NoResult

\* generateChunks returns.
GenerateChunks ==
  /\ ppc = "chunking"
  /\ chunks' = generateChunks(records, maxChunkSize)
  /\ ppc' = "chunked"
  /\ UNCHANGED <<svcVars, embedVars, coordVars, runVars, records, maxChunkSize, batchStart,
                 successCount, outcome, store, upserts, pipeResult>>

ChunkNext == GenerateChunks

ChunkSpec == ChunkInit /\ [][ChunkNext]_vars

\* The length of the rendering `Item k:\n` + text of record k.
RenderedLen(k) == Len("Item ") + (IF k < 10 THEN 1 ELSE 2) + Len(":\n") + records[k]

\* The length of the text made of the renderings of the records in c joined
\* by blank lines.
RECURSIVE TextLen(_)
TextLen(c) ==
  IF c = <<>> THEN 0
  ELSE RenderedLen(Head(c)) + (IF Tail(c) = <<>> THEN 0 ELSE 2 + TextLen(Tail(c)))

\* C13: no chunk is longer than maxChunkSize, except a chunk made of exactly
\* one record whose own rendering is longer; such a record is a chunk of its
\* own, whole.
C13_ChunkSizeBound ==
  ppc = "chunked" =>
    /\ \A i \in 1..Len(chunks) :
         \/ TextLen(chunks[i]) <= maxChunkSize
         \/ Len(chunks[i]) = 1 /\ RenderedLen(chunks[i][1]) > maxChunkSize
    /\ \A k \in 1..Len(records) :
         RenderedLen(k) > maxChunkSize => \E i \in 1..Len(chunks) : chunks[i] = <<k>>

\* A call that packed two records into a chunk and kept an oversized record
\* as a chunk of its own.
C13_Witness ==
  /\ ppc = "chunked"
  /\ \E i \in 1..Len(chunks) : Len(chunks[i]) >= 2
  /\ \E i \in 1..Len(chunks) :
       Len(chunks[i]) = 1 /\ RenderedLen(chunks[i][1]) > maxChunkSize


\* The records of the chunks, read in chunk order.
RECURSIVE RecordsOf(_)
RecordsOf(cs) == IF cs = <<>> THEN <<>> ELSE Head(cs) \o RecordsOf(Tail(cs))

\* C14: the records contained in the chunks, read in chunk order, are exactly
\* the input records in input order: each record is in exactly one chunk,
\* once, and whole.
C14_ChunksCoverRecords ==
  ppc = "chunked" =>
    /\ RecordsOf(chunks) = [k \in 1..Len(records) |-> k]
    /\ \A k \in 1..Len(records) :
         Cardinality({i \in 1..Len(chunks) :
                        \E j \in 1..Len(chunks[i]) : chunks[i][j] = k}) = 1

\* A call that spread three or more records over two or more non-empty chunks.
C14_Witness ==
  /\ ppc = "chunked"
  /\ Len(records) >= 3
  /\ Cardinality({i \in 1..Len(chunks) : chunks[i] # <<>>}) >= 2
  /\ \E i \in 1..Len(chunks) : Len(chunks[i]) >= 2


\* ------------------------------------------------------------------------
\* ClearSpec: one call of clearAllEmbeddings (paginated revision,
\* src/unnamed/part_007) on a store holding any number of vectors.  A query
\* answers with as many vectors as the store holds, up to topK; a query or a
\* delete may fail, which the function turns into { success: false }.
\* ------------------------------------------------------------------------

MaxStored == 3000

\* const queryLimit = 1000; const batchSize = 100
QueryLimit == 1000
DeleteBatchSize == 100

Min(a, b) == IF a < b THEN a ELSE b

\* A plausible slip: the loop stops after its first round.
LastPage_always(n) == TRUE

\* if (vectors.length < queryLimit) hasMoreVectors = false
LastPage(n) == n < QueryLimit

ClearInit ==
  /\ CoordIdle /\ EmbedIdle /\ PipeIdle /\ RunIdle /\ FindIdle /\ ExtIdle
  /\ vectorCount \in 0..MaxStored
  /\ initialCount = vectorCount
  /\ clpc = "query"
  /\ found = 0
  /\ delI = 0
  /\ deletedCount = 0
  /\ queryLog = <<>>
  /\ deleteSizes = {}
  /\ clearResult = "none"

\* index.query({ vector: zeroVector, topK: queryLimit }) answers; an empty
\* answer ends the loop.
ClearQuery ==
  /\ clpc = "query"
  /\ found' = Min(vectorCount, QueryLimit)
  /\ queryLog' = Append(queryLog, [topK |-> QueryLimit, returned |-> found'])
  /\ delI' = 0
  /\ IF found' = 0
     THEN clpc' = "done" /\ clearResult' = "success"
     ELSE clpc' = "delete" /\ clearResult' = clearResult
  /\ UNCHANGED <<extVars, findVars, embedVars, coordVars, pipeVars, runVars, vectorCount, initialCount,
                 deletedCount, deleteSizes>>

\* index.delete(ids.slice(i, i + batchSize)); after the last batch of the
\* round either the loop ends or, after the 500 ms delay, queries again.
ClearDelete ==
  /\ clpc = "delete"
  /\ LET size == Min(DeleteBatchSize, found - delI)
     IN /\ vectorCount' = vectorCount - size
        /\ deletedCount' = deletedCount + size
        /\ deleteSizes' = deleteSizes \cup {size}
  /\ delI' = delI + DeleteBatchSize
  /\ IF delI' < found
     THEN clpc' = "delete" /\ clearResult' = clearResult
     ELSE IF LastPage(found)
     THEN clpc' = "done" /\ clearResult' = "success"
     ELSE clpc' = "query" /\ clearResult' = clearResult
  /\ UNCHANGED <<extVars, findVars, embedVars, coordVars, pipeVars, runVars, initialCount, found, queryLog>>

\* index.query or index.delete throws: the catch returns { success: false }.
ClearFails ==
  /\ clpc \in {"query", "delete"}
  /\ clpc' = "done"
  /\ clearResult' = "failure"
  /\ UNCHANGED <<extVars, findVars, embedVars, coordVars, pipeVars, runVars, vectorCount, initialCount, found,
                 delI, deletedCount, queryLog, deleteSizes>>

ClearNext == ClearQuery \/ ClearDelete \/ ClearFails

ClearSpec == ClearInit /\ [][ClearNext]_vars

\* The scheduler runs the continuation of every settled store call.
FairClearSpec == ClearSpec /\ WF_vars(ClearNext)

\* C15: clearAllEmbeddings on n vectors.  Every query asks for at most 1000
\* results and every delete carries at most 100 ids; every query but the last
\* returned a full page of 1000; a call that returns success leaves 0 vectors
\* and deleted all n; for n = 2500 it took at least 3 rounds; and the call
\* always terminates.
C15_ClearAllPaginates ==
  /\ [](/\ \A i \in 1..Len(queryLog) : queryLog[i].topK <= 1000
        /\ \A size \in deleteSizes : 1 <= size /\ size <= 100
        /\ \A i \in 1..(Len(queryLog) - 1) : queryLog[i].returned = 1000
        /\ (clpc = "query" /\ queryLog # <<>> => queryLog[Len(queryLog)].returned = 1000)
        /\ (clearResult = "success" =>
              /\ vectorCount = 0
              /\ deletedCount = initialCount
              /\ queryLog[Len(queryLog)].returned < 1000
              /\ (initialCount = 2500 => Len(queryLog) >= 3)))
  /\ <>(clpc = "done")

\* 2500 vectors cleared in three rounds; and a store of exactly 2000 vectors
\* cleared, the last query coming back empty.
C15_Witness ==
  /\ clearResult = "success"
  /\ vectorCount = 0
  /\ \/ initialCount = 2500 /\ Len(queryLog) = 3
     \/ initialCount = 2000 /\ Len(queryLog) = 3 /\ queryLog[3].returned = 0


\* ------------------------------------------------------------------------
\* FindSpec: one call of findRelevantContent(query, k), either directly or
\* by the chat handler POST /api/chat, in either revision of lib/upstash.ts.
\* The embedding backend and the store may each fail.
\* ------------------------------------------------------------------------

\* findRelevantContent(query, k = 5) in src/lib/upstash.ts, k = 20 in part_007
DefaultKLib == 5
DefaultKP7 == 20
defaultK(r) == IF r = "lib" THEN DefaultKLib ELSE DefaultKP7

\* const topK = isMaterialCodeQuery ? 50 : k
WideTopK == 50

\* Query strings, with whether the keyword pattern (/lokasi|dimana|...|is|.../
\* on the lower-cased text) and the code pattern (/[A-Z0-9]{3,}/) match.
Queries ==
  {[text |-> "", keyword |-> FALSE, code |-> FALSE],
   [text |-> "total stock", keyword |-> FALSE, code |-> FALSE],
   [text |-> "where is it", keyword |-> TRUE, code |-> FALSE],
   [text |-> "ABC123", keyword |-> FALSE, code |-> TRUE],
   [text |-> "where is ABC123", keyword |-> TRUE, code |-> TRUE]}

\* Values of k a direct caller passes.
Ks == {1, DefaultKLib, DefaultKP7, 60}

\* Stores: empty, three vectors, seven vectors, best match first.
Rankings == {<<>>, <<3, 1, 2>>, <<6, 5, 4, 3, 2, 1, 7>>}

isMaterialCodeQuery(q) == q.keyword /\ q.code

\* The topK findRelevantContent sends: part_007 widens it for material-code
\* lookups, src/lib/upstash.ts sends k.
topKFor(r, q, k) == IF r = "p7" /\ isMaterialCodeQuery(q) THEN WideTopK ELSE k

\* What index.query({ vector, topK }) answers on the store.
QueryAnswer(rk, topK) == SubSeq(rk, 1, Min(topK, Len(rk)))

\* A plausible slip: the best match is dropped from the list.
FindReturn_dropFirst(results) == IF results = <<>> THEN results ELSE Tail(results)

\* return results
FindReturn(results) == results

\* lib: throw error; p7: throw new Error(`Failed to retrieve relevant content: ...`)
FindThrows(r, cause) ==
  [message |-> IF r = "lib" THEN cause ELSE "Failed to retrieve relevant content",
   cause |-> cause]

\* A plausible slip (the handler of src/unnamed/part_002): retrieval errors
\* are swallowed and the chat goes on without context.
ChatCatch_continue(error) == [status |-> 200, context |-> <<>>]

\* The handler's catch around findRelevantContent: a 500 error response.
ChatCatch(error) == [status |-> 500, context |-> <<>>]

\* The handler goes on to the model with the retrieved context.
ChatStream(context) == [status |-> 200, context |-> context]

\* checkDataExists() returned false: a 400 error response.
ChatNoData == [status |-> 400, context |-> <<>>]

FindInit ==
  /\ CoordIdle /\ PipeIdle /\ RunIdle /\ ClearIdle /\ ExtIdle
  /\ rev \in Revisions
  /\ native = VECTOR_DIMENSIONS
  /\ epc = "fn"
  /\ retries = 0
  /\ delay = initialDelay(rev)
  /\ attempts = <<>>
  /\ waits = <<>>
  /\ embedded = <<>>
  /\ thrown = NoError
  /\ caller \in {"chat", "direct"}
  /\ fquery \in Queries
  /\ fk \in (IF caller = "chat" THEN {defaultK(rev)} ELSE Ks)
  /\ ranking \in Rankings
  /\ fpc = (IF caller = "chat" THEN "exists" ELSE "embed")
  /\ ftopK = 0
  /\ fcalls = <<>>
  /\ fresult = <<>>
  /\ ferror = NoFindError
  /\ response = NoResponse

\* The handler's checkDataExists(): a topK = 1 query whose failure counts as
\* "no data".
CheckDataExists(ok) ==
  /\ fpc = "exists"
  /\ IF ok /\ ranking # <<>>
     THEN fpc' = "embed" /\ response' = response
     ELSE fpc' = "responded" /\ response' = ChatNoData
  /\ UNCHANGED <<embedVars, coordVars, pipeVars, runVars, clearVars, extVars, caller, fquery, fk,
                 ranking, ftopK, fcalls, fresult, ferror>>

\* await generateEmbedding(query): returns a vector or throws.
FindEmbeds(ok) ==
  /\ fpc = "embed"
  /\ fcalls' = Append(fcalls, [call |-> "embed", ok |-> ok, answer |-> <<>>])
  /\ IF ok
     THEN fpc' = "query" /\ ferror' = ferror
     ELSE fpc' = "thrown" /\ ferror' = FindThrows(rev, "Failed to generate embedding")
  /\ UNCHANGED <<embedVars, coordVars, pipeVars, runVars, clearVars, extVars, caller, fquery, fk,
                 ranking, ftopK, fresult, response>>

\* await index.query({ vector, topK, includeMetadata }): answers or throws.
FindQueries(ok) ==
  /\ fpc = "query"
  /\ ftopK' = topKFor(rev, fquery, fk)
  /\ fcalls' = Append(fcalls, [call |-> "query", ok |-> ok,
                               answer |-> IF ok THEN QueryAnswer(ranking, ftopK') ELSE <<>>])
  /\ IF ok
     THEN /\ fpc' = "returned"
          /\ fresult' = FindReturn(QueryAnswer(ranking, ftopK'))
          /\ ferror' = ferror
     ELSE /\ fpc' = "thrown"
          /\ fresult' = fresult
          /\ ferror' = FindThrows(rev, "store query failed")
  /\ UNCHANGED <<embedVars, coordVars, pipeVars, runVars, clearVars, extVars, caller, fquery, fk,
                 ranking, response>>

\* The chat handler after findRelevantContent returned or threw.
ChatResponds ==
  /\ caller = "chat"
  /\ fpc \in {"returned", "thrown"}
  /\ response' = IF fpc = "returned" THEN ChatStream(fresult) ELSE ChatCatch(ferror)
  /\ fpc' = "responded"
  /\ UNCHANGED <<embedVars, coordVars, pipeVars, runVars, clearVars, extVars, caller, fquery, fk,
                 ranking, ftopK, fcalls, fresult, ferror>>

FindNext ==
  \/ \E ok \in BOOLEAN : CheckDataExists(ok)
  \/ \E ok \in BOOLEAN : FindEmbeds(ok)
  \/ \E ok \in BOOLEAN : FindQueries(ok)
  \/ ChatResponds

FindSpec == FindInit /\ [][FindNext]_vars

\* A backend call of findRelevantContent failed.
BackendFailed == \E i \in 1..Len(fcalls) : ~fcalls[i].ok

C17_ResultUnmodified ==
  /\ fpc = "returned" =>
       /\ Len(fcalls) = 2
       /\ fcalls[2].call = "query"
       /\ fresult = fcalls[2].answer
       /\ ferror = NoFindError
  /\ (Len(fcalls) = 2 /\ ~BackendFailed /\ ranking = <<>>) =>
       /\ fpc = "returned"
       /\ fresult = <<>>
       /\ ferror = NoFindError

\* A non-empty list returned as answered, and the empty query on the empty
\* store.
C17_Witness ==
  /\ fpc = "returned"
  /\ \/ Len(fresult) >= 3 /\ fresult = fcalls[2].answer
     \/ fquery.text = "" /\ ranking = <<>> /\ fresult = <<>>


\* ------------------------------------------------------------------------
\* Claims on the coordinator's transitions (CoordSpec)
\* ------------------------------------------------------------------------

\* The persisted status is Processing.
Processing(sf) == sf # <<>> /\ sf[1].isProcessing

\* C18: updateProgress is valid only while Processing; the only operation
\* that moves the persisted status from Idle or Error into Processing is
\* startProcessing.
C18_OnlyStartEntersProcessing ==
  [][(~Processing(statusFile) /\ Processing(statusFile'))
       => lastOp'.op = "startProcessing"]_vars

\* C19: after setProcessingError(message) has completed the persisted status
\* has isProcessing = false, error = message and locked = false, and no lock
\* is held by any user, whoever owned it and whatever userId the status had.
C19_ErrorReleasesLock ==
  [][(lastOp'.op = "setProcessingError" /\ lastOp'.ret = "returns")
       => /\ ~Processing(statusFile')
          /\ statusFile'[1].error \in ErrorMessages
          /\ ~statusFile'[1].locked
          /\ lockFile' = <<>>]_vars

\* The users of the model and one more.
AnyUser == Users \cup {"u3"}

\* C20: after endProcessing() has completed on a status that was Processing
\* for user u, the persisted status has isProcessing = false, locked = false,
\* no progress and no error, u owns no lock, and tryAcquireLock by any other
\* user would succeed at once.
C20_EndReleasesLock ==
  [][(/\ lastOp'.op = "endProcessing" /\ lastOp'.ret = "returns"
      /\ Processing(statusFile) /\ statusFile[1].userId # Undefined)
       => /\ ~Processing(statusFile')
          /\ ~statusFile'[1].locked
          /\ statusFile'[1].progress = NoProgress
          /\ statusFile'[1].error = Undefined
          /\ (lockFile' = <<>> \/ lockFile'[1].userId # statusFile[1].userId)
          /\ \A v \in AnyUser \ {statusFile[1].userId} :
               tryAcquireLockRet(lockFile', v, now')]_vars


\* ------------------------------------------------------------------------
\* PollSpec: GET /api/processing-status polls getProcessingStatus while the
\* run of RunOwner, which is Processing, calls updateProgress.  Both are
\* interleaved at every file system call.  fsPromises.writeFile(path, data)
\* opens the file with flag 'w', which truncates it, and writes afterwards;
\* a readFile between the two gets the empty string, on which JSON.parse
\* throws.  The exchange lasts less than one unit of the clock, so the
\* record is never stale, and the status file exists throughout.
\* ------------------------------------------------------------------------

MaxUpdates == 3

\* The updateProgress calls of processInventoryData, in order.
RunUpdates ==
  <<"progress0", "progress10", "progress20", "progress30", "progressPipe", "progress100">>

PollInit ==
  /\ EmbedIdle /\ PipeIdle /\ RunIdle /\ ClearIdle /\ FindIdle /\ IngIdle /\ ReIdle
  /\ statusFile = <<StartStatus(RunOwner, 1)>>
  /\ lockFile = <<NewLock(RunOwner, 1)>>
  /\ now = 1
  /\ cpc = "ready"
  /\ pending = "none"
  /\ lastOp = [op |-> "startProcessing", userId |-> RunOwner, ret |-> "returns"]
  /\ PollIdle

pollOthers == <<ingVars, reVars, clearVars, findVars, embedVars, pipeVars, runVars, lockFile, now, cpc, pending, lastOp>>

\* open(path, 'w'): the file is there and empty.
OpenForWrite ==
  /\ statusFile' = <<>>
  /\ truncated' = TRUE

\* write(fd, JSON.stringify(status)); close(fd)
WriteContent(status) ==
  /\ statusFile' = <<status>>
  /\ truncated' = FALSE

\* The run calls updateProgress(current, total, message), which calls
\* getProcessingStatus: existsSync finds the file.
WriterCalls ==
  /\ wpc = "idle"
  /\ wcount < MaxUpdates
  /\ wpc' = "gps"
  /\ UNCHANGED <<statusFile, truncated, wbuf, wcount, rpc, polled, pollOthers>>

\* The status updateProgress builds from the one it read.
WriterStatus(cur) ==
  LET a == ProgressArgs(RunUpdates[wcount + 1], "process")
  IN ProgressStatus(cur, a.current, a.total, a.message, now)

\* getProcessingStatus inside updateProgress: readFile and JSON.parse; on an
\* empty file the catch calls initProcessingStatus.
WriterReads ==
  /\ wpc = "gps"
  /\ IF statusFile = <<>>
     THEN wpc' = "initOpen" /\ wbuf' = wbuf
     ELSE wpc' = "open" /\ wbuf' = WriterStatus(statusFile[1])
  /\ UNCHANGED <<statusFile, truncated, wcount, rpc, polled, pollOthers>>

WriterInitOpens ==
  /\ wpc = "initOpen"
  /\ OpenForWrite
  /\ wpc' = "initWrite"
  /\ UNCHANGED <<wbuf, wcount, rpc, polled, pollOthers>>

WriterInitWrites ==
  /\ wpc = "initWrite"
  /\ WriteContent(InitStatus(now))
  /\ wbuf' = WriterStatus(InitStatus(now))
  /\ wpc' = "open"
  /\ UNCHANGED <<wcount, rpc, polled, pollOthers>>

\* updateProgress: fsPromises.writeFile opens the status file ...
WriterOpens ==
  /\ wpc = "open"
  /\ OpenForWrite
  /\ wpc' = "write"
  /\ UNCHANGED <<wbuf, wcount, rpc, polled, pollOthers>>

\* ... and writes the new status; updateProgress returns.
WriterWrites ==
  /\ wpc = "write"
  /\ WriteContent(wbuf)
  /\ wpc' = "idle"
  /\ wcount' = wcount + 1
  /\ UNCHANGED <<wbuf, rpc, polled, pollOthers>>

\* GET /api/processing-status calls getProcessingStatus: existsSync finds
\* the file.
PollCalls ==
  /\ rpc \in {"idle", "returned"}
  /\ rpc' = "read"
  /\ UNCHANGED <<statusFile, truncated, wpc, wbuf, wcount, polled, pollOthers>>

\* readFile and JSON.parse: the status is returned, or, on an empty file,
\* the catch calls initProcessingStatus.
PollReads ==
  /\ rpc = "read"
  /\ IF statusFile = <<>>
     THEN rpc' = "initOpen" /\ polled' = polled
     ELSE rpc' = "returned" /\ polled' = statusFile
  /\ UNCHANGED <<statusFile, truncated, wpc, wbuf, wcount, pollOthers>>

PollInitOpens ==
  /\ rpc = "initOpen"
  /\ OpenForWrite
  /\ rpc' = "initWrite"
  /\ UNCHANGED <<wpc, wbuf, wcount, polled, pollOthers>>

PollInitWrites ==
  /\ rpc = "initWrite"
  /\ WriteContent(InitStatus(now))
  /\ polled' = <<InitStatus(now)>>
  /\ rpc' = "returned"
  /\ UNCHANGED <<wpc, wbuf, wcount, pollOthers>>

PollNext ==
  \/ WriterCalls
  \/ WriterReads
  \/ WriterInitOpens
  \/ WriterInitWrites
  \/ WriterOpens
  \/ WriterWrites
  \/ PollCalls
  \/ PollReads
  \/ PollInitOpens
  \/ PollInitWrites

PollSpec == PollInit /\ [][PollNext]_vars

\* C21: getProcessingStatus is read-only for a live record.  Every step of
\* a poll leaves the status file and the lock as they are, and the poll
\* returns the status the file holds, also while the run's updateProgress
\* is under way.
C21_PollIsReadOnly ==
  [][rpc' # rpc =>
       /\ statusFile' = statusFile
       /\ lockFile' = lockFile
       /\ (rpc' = "returned" => polled' # <<>> /\ polled' = statusFile)]_vars


\* ------------------------------------------------------------------------
\* ServerSpec: one invocation of processInventoryData or clearAllData with a
\* well-formed file, seen from the vector store, and the reset-index
\* endpoint POST /api/setup-index, which may be served at any moment.  The
\* store holds vectorCount vectors of an earlier ingestion.  The index
\* rejects a vector whose length is not its dimension (the "dimension
\* mismatches" of the action's error message), and any call of the store
\* may fail.  clearAllEmbeddings is taken round by round (one query and the
\* deletes of what it returned).
\* ------------------------------------------------------------------------

MaxRouteCalls == 2

\* The index was created for 1536 or for 3072 dimensions.
IndexDims == {VECTOR_DIMENSIONS, 2 * VECTOR_DIMENSIONS}

\* How many vectors an earlier ingestion left.
StoreSizes == {0, 400, 1000, 1500, 2500}

\* How many vectors upsertEmbeddings hands to the store.
UpsertSizes == {0, 2}

\* Between the return of startProcessing and the call of endProcessing or
\* setProcessingError.
InRun == aphase \in {"setup", "clear", "cleared", "upsert", "end"}

ServerInit ==
  /\ CoordIdle /\ PipeIdle /\ RunIdle /\ FindIdle /\ PollIdle /\ ReIdle
  /\ rev \in Revisions
  /\ native \in NativeWidths
  /\ epc = "fn"
  /\ retries = 0
  /\ delay = initialDelay(rev)
  /\ attempts = <<>>
  /\ waits = <<>>
  /\ embedded = <<>>
  /\ thrown = NoError
  /\ vectorCount \in StoreSizes
  /\ initialCount = vectorCount
  /\ clpc = "idle"
  /\ found = 0
  /\ delI = 0
  /\ deletedCount = 0
  /\ queryLog = <<>>
  /\ deleteSizes = {}
  /\ clearResult = "none"
  /\ indexDim \in IndexDims
  /\ storedDims = (IF vectorCount > 0 THEN {indexDim} ELSE {})
  /\ newCount = 0
  /\ mutations = <<>>
  /\ aphase = "idle"
  /\ akind \in ActionKinds
  /\ aresult = "none"
  /\ routeCalls = 0
  /\ lastInfo = 0

serverFixed ==
  <<findVars, pollVars, reVars, embedVars, pipeVars, runVars, now, cpc, pending, lastOp,
    initialCount, clpc, found, delI, queryLog, deleteSizes, indexDim, akind>>

storeState == <<vectorCount, storedDims, newCount>>

Mutation(op, by) == [op |-> op, by |-> by, inRun |-> InRun]

\* await updateProgress(...) of the statement `stage`.
Progress(stage) ==
  statusFile' = <<ProgressStatus(Fetch(statusFile, now), ProgressArgs(stage, akind).current,
                                 ProgressArgs(stage, akind).total,
                                 ProgressArgs(stage, akind).message, now)>>

\* await setProcessingError(message), and what the caller gets.
Fails(message, r) ==
  /\ statusFile' = <<ErrorStatus(Fetch(statusFile, now), message, now)>>
  /\ lockFile' = releaseIfUser(lockFile, Fetch(statusFile, now).userId)
  /\ aphase' = "done"
  /\ aresult' = r

\* getProcessingStatus, isProcessLockedByOtherUser, startProcessing(userId)
ActionStarts ==
  /\ aphase = "idle"
  /\ statusFile' = <<StartStatus(RunOwner, now)>>
  /\ lockFile' = tryAcquireLockFile(lockFile, RunOwner, now)
  /\ aphase' = (IF akind = "process" THEN "setup" ELSE "clear")
  /\ UNCHANGED <<storeState, deletedCount, clearResult, mutations, aresult, routeCalls,
                 lastInfo, serverFixed>>

\* A plausible slip: the index is never reset.
NeedsReset_never(dimension) == FALSE

\* indexInfo.dimension !== VECTOR_DIMENSIONS
NeedsReset(dimension) == dimension # VECTOR_DIMENSIONS

\* setupVectorIndex(): index.info(), and index.reset() on a wrong dimension.
setupVectorIndex(by, ok) ==
  /\ lastInfo' = (IF ok THEN indexDim ELSE 0)
  /\ IF ok /\ NeedsReset(indexDim)
     THEN /\ vectorCount' = 0
          /\ newCount' = 0
          /\ storedDims' = {}
          /\ mutations' = Append(mutations, Mutation("reset", by))
     ELSE UNCHANGED <<storeState, mutations>>

\* await setupVectorIndex(); await updateProgress(0, 100, "Setting up vector index...")
ActionSetsUp(ok) ==
  /\ aphase = "setup"
  /\ setupVectorIndex("run", ok)
  /\ IF ok
     THEN /\ Progress("progress0")
          /\ aphase' = "clear"
          /\ UNCHANGED <<lockFile, aresult>>
     ELSE Fails(IndexError, "thrown")
  /\ UNCHANGED <<deletedCount, clearResult, routeCalls, serverFixed>>

\* POST /api/setup-index: setupVectorIndex(), whatever the status says.
RouteSetsUp(ok) ==
  /\ routeCalls < MaxRouteCalls
  /\ routeCalls' = routeCalls + 1
  /\ setupVectorIndex("route", ok)
  /\ UNCHANGED <<files, deletedCount, clearResult, aphase, aresult, serverFixed>>

\* The updateProgress before clearAllEmbeddings: (20, 100, "Parsed ...") in
\* processInventoryData, (0, 100, "Clearing all data...") in clearAllData.
BeforeClear == Progress(IF akind = "process" THEN "progress20" ELSE "progress0")

\* clearAllEmbeddings of src/lib/upstash.ts: one query with topK 1000 and one
\* delete of what it returned; an error of the store is rethrown.
LibClear(ok) ==
  /\ aphase = "clear"
  /\ rev = "lib"
  /\ IF ok
     THEN LET n == Min(vectorCount, QueryLimit)
          IN /\ vectorCount' = vectorCount - n
             /\ deletedCount' = deletedCount + n
             /\ storedDims' = (IF vectorCount' + newCount > 0 THEN storedDims ELSE {})
             /\ mutations' = (IF n > 0 THEN Append(mutations, Mutation("delete", "run"))
                              ELSE mutations)
             /\ clearResult' = "success"
             /\ BeforeClear
             /\ aphase' = "cleared"
             /\ UNCHANGED <<lockFile, newCount, aresult>>
     ELSE /\ clearResult' = "failure"
          /\ Fails(StoreError, "thrown")
          /\ UNCHANGED <<storeState, deletedCount, mutations>>
  /\ UNCHANGED <<routeCalls, lastInfo, serverFixed>>

\* clearAllEmbeddings of src/unnamed/part_007, one round of its loop: the
\* query, and the deletes of the vectors it returned.
P7ClearRound ==
  /\ aphase = "clear"
  /\ rev = "p7"
  /\ LET n == Min(vectorCount, QueryLimit)
     IN /\ vectorCount' = vectorCount - n
        /\ deletedCount' = deletedCount + n
        /\ storedDims' = (IF vectorCount' + newCount > 0 THEN storedDims ELSE {})
        /\ mutations' = (IF n > 0 THEN Append(mutations, Mutation("delete", "run"))
                         ELSE mutations)
        /\ IF n = 0 \/ LastPage(n)
           THEN aphase' = "cleared" /\ clearResult' = "success"
           ELSE aphase' = "clear" /\ clearResult' = clearResult
  /\ BeforeClear
  /\ UNCHANGED <<lockFile, newCount, aresult, routeCalls, lastInfo, serverFixed>>

\* The round's query fails, or a delete fails after `deleted` vectors of the
\* round were deleted: the catch returns { success: false }, which neither
\* action looks at.
P7ClearFails(deleted) ==
  /\ aphase = "clear"
  /\ rev = "p7"
  /\ deleted <= Min(vectorCount, QueryLimit)
  /\ vectorCount' = vectorCount - deleted
  /\ deletedCount' = deletedCount + deleted
  /\ storedDims' = (IF vectorCount' + newCount > 0 THEN storedDims ELSE {})
  /\ mutations' = (IF deleted > 0 THEN Append(mutations, Mutation("delete", "run"))
                   ELSE mutations)
  /\ clearResult' = "failure"
  /\ aphase' = "cleared"
  /\ BeforeClear
  /\ UNCHANGED <<lockFile, newCount, aresult, routeCalls, lastInfo, serverFixed>>

\* processInventoryData: updateProgress(30, 100, "Existing data cleared, ...");
\* clearAllData: updateProgress(100, 100, "All data cleared successfully.")
AfterClear ==
  /\ aphase = "cleared"
  /\ IF akind = "process"
     THEN Progress("progress30") /\ aphase' = "upsert"
     ELSE Progress("progress100") /\ aphase' = "end"
  /\ UNCHANGED <<lockFile, storeState, deletedCount, clearResult, mutations, aresult,
                 routeCalls, lastInfo, serverFixed>>

\* The length of the vectors generateEmbedding returns.
EmbeddingWidth == Len(resizeEmbedding(rev, BackendValues(native)))

\* upsertEmbeddings("inventory-data", dataString) hands n vectors to the
\* store and returns, then updateProgress(100, 100, "Successfully ...");
\* or index.upsert throws, and the catch around it reports the failure.
\* The ids are those of every ingestion ("inventory-data-0", ...): `over` of
\* the earlier vectors still in the store carry one of them and are replaced.
ActionUpserts(n, over, ok) ==
  /\ aphase = "upsert"
  /\ over <= Min(n, vectorCount)
  /\ IF n = 0 \/ (ok /\ EmbeddingWidth = indexDim)
     THEN /\ newCount' = newCount + n
          /\ vectorCount' = vectorCount - over
          /\ storedDims' = (IF n > 0 THEN storedDims \cup {EmbeddingWidth} ELSE storedDims)
          /\ mutations' = (IF n > 0 THEN Append(mutations, Mutation("upsert", "run"))
                           ELSE mutations)
          /\ Progress("progress100")
          /\ aphase' = "end"
          /\ UNCHANGED <<lockFile, aresult>>
     ELSE /\ Fails(EmbeddingError, "failure")
          /\ UNCHANGED <<storeState, mutations>>
  /\ UNCHANGED <<deletedCount, clearResult, routeCalls, lastInfo, serverFixed>>

\* await endProcessing(); return { success: true, ... }
ActionEnds ==
  /\ aphase = "end"
  /\ statusFile' = <<EndStatus(now)>>
  /\ lockFile' = releaseIfUser(lockFile, Fetch(statusFile, now).userId)
  /\ aphase' = "done"
  /\ aresult' = "success"
  /\ UNCHANGED <<storeState, deletedCount, clearResult, mutations, routeCalls, lastInfo,
                 serverFixed>>

ServerNext ==
  \/ ActionStarts
  \/ \E ok \in BOOLEAN : ActionSetsUp(ok)
  \/ \E ok \in BOOLEAN : RouteSetsUp(ok)
  \/ \E ok \in BOOLEAN : LibClear(ok)
  \/ P7ClearRound
  \/ \E d \in {0, DeleteBatchSize} : P7ClearFails(d)
  \/ AfterClear
  \/ \E n \in UpsertSizes, over \in UpsertSizes, ok \in BOOLEAN : ActionUpserts(n, over, ok)
  \/ ActionEnds

ServerSpec == ServerInit /\ [][ServerNext]_vars


\* ------------------------------------------------------------------------
\* Claims on the server actions and the store
\* ------------------------------------------------------------------------

\* The step is a call of setupVectorIndex, by the action or by the endpoint.
SetupStep == routeCalls' # routeCalls \/ (aphase = "setup" /\ aphase' # "setup")

\* The step appended a mutation `op` to the log.
Mutates(op) ==
  /\ Len(mutations') = Len(mutations) + 1
  /\ SubSeq(mutations', 1, Len(mutations)) = mutations
  /\ mutations'[Len(mutations')].op = op

\* C22: setupVectorIndex calls index.reset() exactly when the dimension the
\* index reports differs from 1536, and then the store is empty; when the
\* dimension is 1536 (or could not be read) it mutates nothing; nothing else
\* resets the index; and the store never holds vectors of two lengths,
\* whatever ingestion follows.
C22_ResetOnWrongDimension ==
  /\ [][/\ SetupStep =>
             IF lastInfo' \notin {0, 1536}
             THEN Mutates("reset") /\ vectorCount' = 0 /\ newCount' = 0 /\ storedDims' = {}
             ELSE UNCHANGED <<vectorCount, newCount, storedDims, mutations>>
        /\ Mutates("reset") => SetupStep]_vars
  /\ [](Cardinality(storedDims) <= 1)

\* The action found an index of 3072 dimensions that held vectors, reset it,
\* ingested vectors of that length and returned success.
C22_Witness ==
  /\ aresult = "success"
  /\ initialCount > 0
  /\ indexDim = 3072
  /\ \E i \in 1..Len(mutations) : mutations[i] = [op |-> "reset", by |-> "run", inRun |-> TRUE]
  /\ \E i \in 1..Len(mutations) : mutations[i].op = "upsert"
  /\ storedDims = {3072}
  /\ newCount > 0
  /\ vectorCount = 0

\* C23: every mutation of the store issued while a run is Processing is
\* issued by that run; in particular POST /api/setup-index mutates nothing
\* during a run.
C23_RunIsSoleMutator ==
  \A i \in 1..Len(mutations) : mutations[i].inRun => mutations[i].by = "run"


\* C27: clearAllData returns success only if clearAllEmbeddings succeeded and
\* the store holds no vector afterwards; when clearAllEmbeddings failed the
\* caller gets a failure, the persisted status ends with an error, and the
\* status never says that all data was cleared.
C27_ClearReportsFailure ==
  akind = "clear" =>
    /\ aresult = "success" => clearResult = "success" /\ vectorCount = 0
    /\ clearResult = "failure" =>
         /\ Fetch(statusFile, now).progress.message # "All data cleared successfully."
         /\ aphase = "done" => /\ aresult \in {"failure", "thrown"}
                               /\ Fetch(statusFile, now).error # Undefined

\* C28: once processInventoryData has returned success, every vector of the
\* store was upserted by this run: none of the vectors that were there before
\* is left, whatever their number and whatever the clearing step reported.
C28_OnlyThisRunsVectors ==
  (akind = "process" /\ aresult = "success") => vectorCount = 0


\* ------------------------------------------------------------------------
\* ReingestSpec: upsertEmbeddings(resourceId, content), clearAllEmbeddings,
\* and upsertEmbeddings again with the same arguments, in either revision.
\* Each call is one step; in a call at most one chunk's embedding fails, and
\* the clearing may fail.  The store holds ids.
\* ------------------------------------------------------------------------

\* The resourceId processInventoryData passes.
ResourceId == "inventory-data"

\* A plausible slip: the id is taken from the place in the batch.
chunkId_batchLocal(resourceId, i, index) == <<resourceId, index>>

\* `${resourceId}-${i + index}`: the resource id and the decimal numeral of
\* i + index, kept as a pair.
chunkId(resourceId, i, index) == <<resourceId, i + index>>

\* The id of the chunk at 0-based position j: the loop variable i is the
\* start of its batch and index its place in batch.map.
IdAt(resourceId, j, r) ==
  chunkId(resourceId, (j \div batchSize(r)) * batchSize(r), j % batchSize(r))

\* The sets of chunks whose embedding fails in one call.
FailureSets(n) == {{}} \cup {{j} : j \in 0..(n - 1)}

ReingestInit ==
  /\ CoordIdle /\ RunIdle /\ ClearIdle /\ FindIdle /\ PollIdle /\ IngIdle
  /\ rev \in Revisions
  /\ native = VECTOR_DIMENSIONS
  /\ epc = "fn"
  /\ retries = 0
  /\ delay = initialDelay(rev)
  /\ attempts = <<>>
  /\ waits = <<>>
  /\ embedded = <<>>
  /\ thrown = NoError
  /\ records \in RecordArrays
  /\ chunks = <<>>
  /\ ppc = "idle"
  /\ batchStart = 0
  /\ successCount = 0
  /\ outcome = <<>>
  /\ store = {}
  /\ upserts = <<>>
  /\ pipeResult = NoResult
  /\ maxChunkSize = DefaultMaxChunkSize
  /\ history = <<>>
  /\ rphase = "ingest"

reOthers ==
  <<coordVars, runVars, clearVars, findVars, pollVars, ingVars, embedVars, records, ppc,
    batchStart, outcome, upserts, maxChunkSize>>

\* upsertEmbeddings(ResourceId, content) runs to its return; the embeddings
\* of the chunks in `failed` fail.
Ingest(failed) ==
  /\ rphase = "ingest"
  /\ chunks' = generateChunks(records, DefaultMaxChunkSize)
  /\ failed \in FailureSets(Len(chunks'))
  /\ LET n == Len(chunks')
         ids == [j \in 0..(n - 1) |-> IdAt(ResourceId, j, rev)]
         upserted == {ids[j] : j \in (0..(n - 1)) \ failed}
     IN /\ store' = store \cup upserted
        /\ successCount' = n - Cardinality(failed)
        /\ pipeResult' = PipelineResult(successCount', n)
        /\ history' = Append(history, [totalChunks |-> n, ids |-> ids, failed |-> failed,
                                       stored |-> store'])
  /\ rphase' = (IF Len(history) = 0 THEN "clear" ELSE "done")
  /\ UNCHANGED reOthers

\* clearAllEmbeddings() between the two calls: it empties the store (which
\* holds fewer than 1000 vectors), or a store error leaves it as it is.
Reclear(ok) ==
  /\ rphase = "clear"
  /\ store' = (IF ok THEN {} ELSE store)
  /\ rphase' = "ingest"
  /\ UNCHANGED <<chunks, successCount, pipeResult, history, reOthers>>

ReingestNext ==
  \/ \E failed \in FailureSets(MaxRecords) : Ingest(failed)
  \/ \E ok \in BOOLEAN : Reclear(ok)

ReingestSpec == ReingestInit /\ [][ReingestNext]_vars

\* C24: the vector of the chunk at 0-based position j gets the id
\* resourceId-j; the ids of one call are pairwise distinct; and a second call
\* with the same payload, after clearAllEmbeddings, has the same totalChunks
\* and the same ids, and leaves the same store contents when no embedding
\* failed.
C24_IdempotentReingestion ==
  /\ \A r \in 1..Len(history) :
       /\ \A j \in 0..(history[r].totalChunks - 1) : history[r].ids[j] = <<ResourceId, j>>
       /\ Cardinality({history[r].ids[j] : j \in 0..(history[r].totalChunks - 1)})
            = history[r].totalChunks
  /\ Len(history) = 2 =>
       /\ history[2].totalChunks = history[1].totalChunks
       /\ history[2].ids = history[1].ids
       /\ (history[1].failed = {} /\ history[2].failed = {}) =>
             /\ history[2].stored = history[1].stored
             /\ Cardinality(history[2].stored) = history[2].totalChunks

\* Two calls of more chunks than one batch, a chunk of the second batch
\* failing in the first call only.
C24_Witness ==
  /\ Len(history) = 2
  /\ history[1].totalChunks > batchSize(rev)
  /\ history[1].failed = {batchSize(rev)}
  /\ history[2].failed = {}
  /\ <<ResourceId, batchSize(rev)>> \in store


\* ------------------------------------------------------------------------
\* More claims on the interleaved server actions (Spec)
\* ------------------------------------------------------------------------

\* The step ends the invocation of p, whose startProcessing threw because
\* somebody else's lock was fresh.
Rejected(p) ==
  /\ pc[p] # "done" /\ pc'[p] = "done"
  /\ ~started[p]
  /\ errorMessage[p] = CannotStart

\* C25: lock contention does not disturb the active writer.  When the
\* invocation of p, whose startProcessing failed on the fresh lock of q, has
\* finished (its catch block included) and q's run is still going on, the
\* persisted status is isProcessing = true with userId = q and the lock is
\* still q's.
C25_ContentionLeavesWriter ==
  [][\A p, q \in Users :
       (p # q /\ Rejected(p) /\ Running(q)) =>
         /\ statusFile' # <<>>
         /\ statusFile'[1].isProcessing
         /\ statusFile'[1].userId = q
         /\ lockFile' # <<>>
         /\ lockFile'[1].userId = q]_vars


\* C29: monotonic progress.  Within one run, with no other invocation
\* around, each persisted progress update has a completed fraction
\* current/total at least that of the update before it, and a current at
\* least the previous one while total is unchanged.
C29_MonotonicProgress ==
  [][\A p \in Users :
       (/\ Running(p)
        /\ \A q \in Users \ {p} : pc[q] = "idle"
        /\ Processing(statusFile) /\ Processing(statusFile')
        /\ statusFile' # statusFile)
       => LET old == statusFile[1].progress
              new == statusFile'[1].progress
          IN /\ new.current * old.total >= old.current * new.total
             /\ (new.total = old.total => new.current >= old.current)]_vars


\* ------------------------------------------------------------------------
\* More claims on the coordinator (CoordSpec)
\* ------------------------------------------------------------------------

\* C26: lock renewal.  While the run of u1 is Processing (for at most 30
\* minutes), holds its lock and has persisted a status within the last 5
\* minutes (it keeps calling updateProgress), tryAcquireLock(u2) returns
\* false and startProcessing(u2) throws for every u2 other than u1.
C26_LockRenewed ==
  [][(/\ lastOp'.op \in {"tryAcquireLock", "startProcessing"}
      /\ Processing(statusFile)
      /\ ~StaleFile(statusFile, now)
      /\ statusFile[1].userId \notin {Undefined, lastOp'.userId}
      /\ lockFile # <<>>
      /\ lockFile[1].userId = statusFile[1].userId
      /\ now - statusFile[1].lastUpdated <= LOCK_TTL)
       => lastOp'.ret \in {"false", "throws"}]_vars


\* ------------------------------------------------------------------------
\* More claims on the pipeline (PipeSpec)
\* ------------------------------------------------------------------------

\* C30: upsertEmbeddings persists (0, totalChunks) before the first batch;
\* every later update has total = totalChunks and current = the number of
\* chunks embedded successfully so far; and the last update's current is the
\* chunksProcessed it returns.
C30_ProgressCountsSuccesses ==
  [][statusFile' # statusFile =>
       LET new == statusFile'[1].progress
       IN /\ new.total = Len(chunks')
          /\ ppc = "called" => new.current = 0
          /\ ppc \in {"batch", "final"} => new.current = successCount
          /\ ppc = "final" => new.current = pipeResult'.chunksProcessed]_vars

InFlight(out) == {j \in 1..Len(out) : out[j] = "pending"}
BatchNo(j) == (j - 1) \div batchSize(rev)

\* C31: at most batchSize embedding calls are in flight at any time; an upsert
\* is issued only when every embedding call of its batch has settled; and an
\* embedding call starts only when every chunk of every earlier batch has
\* settled and the successful ones are in the store.
C31_FanOutFanIn ==
  /\ [](Cardinality(InFlight(outcome)) <= batchSize(rev))
  /\ [][(upserts' # upserts \/ store' # store) =>
          /\ InFlight(outcome) = {}
          /\ \A j \in BatchOf(batchStart, Len(chunks), rev) :
               outcome[j + 1] \in {"ok", "failed"}
          /\ store' \ store \subseteq BatchOf(batchStart, Len(chunks), rev)]_vars
  /\ [][\A j \in 1..Len(outcome) :
          (outcome'[j] = "pending" /\ outcome[j] # "pending") =>
            \A k \in 1..Len(outcome) :
              BatchNo(k) < BatchNo(j) =>
                /\ outcome[k] \in {"ok", "failed"}
                /\ (outcome[k] = "ok") = ((k - 1) \in store)]_vars

\* A full second batch is in flight after the first batch, in which one chunk
\* failed, was upserted.
C31_Witness ==
  /\ ppc = "embedding"
  /\ batchStart = batchSize(rev)
  /\ Cardinality(InFlight(outcome)) = batchSize(rev)
  /\ Len(upserts) = 1
  /\ \E k \in 1..batchSize(rev) : outcome[k] = "failed"

BatchesWithSuccess ==
  {b \in 0..Len(chunks) : \E j \in 0..(Len(chunks) - 1) :
     outcome[j + 1] = "ok" /\ j \div batchSize(rev) = b}

\* C32: when a batch has settled, index.upsert is called once with exactly the
\* chunks of the batch that were embedded successfully if there is one, and is
\* not called if there is none; index.upsert is called at no other time, so a
\* returned call made one upsert per batch that had a success.
C32_OneUpsertPerBatch ==
  /\ [][(ppc = "embedding" /\ ppc' # "embedding") =>
          LET batch == BatchOf(batchStart, Len(chunks), rev)
              ok == {j \in batch : outcome[j + 1] = "ok"}
          IN IF ok = {}
             THEN upserts' = upserts /\ store' = store /\ ppc' # "thrown"
             ELSE \/ upserts' = Append(upserts, ok) /\ store' = store \cup ok
                  \/ ppc' = "thrown" /\ upserts' = upserts /\ store' = store]_vars
  /\ [][upserts' # upserts => (ppc = "embedding" /\ ppc' # "embedding")]_vars
  /\ [](ppc = "returned" => Len(upserts) = Cardinality(BatchesWithSuccess))

\* A returned call of two batches: every chunk of the first failed and no
\* upsert was made for it, the second had a failure and a success and its one
\* upsert carried the success alone.
C32_Witness ==
  /\ ppc = "returned"
  /\ Len(chunks) > batchSize(rev)
  /\ \A j \in 1..batchSize(rev) : outcome[j] = "failed"
  /\ \E j \in (batchSize(rev) + 1)..Len(chunks) : outcome[j] = "failed"
  /\ Len(upserts) = 1
  /\ upserts[1] = {j \in 0..(Len(chunks) - 1) : outcome[j + 1] = "ok"}

\* ------------------------------------------------------------------------
\* Frame of updateProgress (CoordSpec)
\* ------------------------------------------------------------------------

\* C33: a call of updateProgress(current, total, message) on a Processing
\* record leaves every field but progress and lastUpdated as it was: startTime
\* and userId are those persisted before, isProcessing and locked stay true;
\* when it returns, progress holds its arguments and the lock file is untouched.
C33_UpdateProgressFrame ==
  [][(lastOp'.op = "updateProgress" /\ pending = "none" /\ Processing(statusFile)) =>
       /\ statusFile' # <<>>
       /\ statusFile'[1].startTime = statusFile[1].startTime
       /\ statusFile'[1].userId = statusFile[1].userId
       /\ statusFile'[1].isProcessing
       /\ statusFile'[1].locked
       /\ statusFile'[1].error = statusFile[1].error
       /\ lastOp'.ret = "returns" =>
            /\ <<statusFile'[1].progress.current, statusFile'[1].progress.total,
                 statusFile'[1].progress.message>> \in ProgressCalls
            /\ statusFile'[1].lastUpdated = now
            /\ lockFile' = lockFile]_vars

\* updateProgress has just returned in a run that a user started earlier:
\* the record still carries the user and the earlier start time.
C33_Witness ==
  /\ lastOp.op = "updateProgress"
  /\ lastOp.ret = "returns"
  /\ statusFile # <<>>
  /\ statusFile[1].userId \in Users
  /\ statusFile[1].startTime < statusFile[1].lastUpdated
  /\ statusFile[1].progress.current = 100
  /\ lockFile # <<>>

\* ------------------------------------------------------------------------
\* Backoff schedule (EmbedSpec)
\* ------------------------------------------------------------------------

\* C34: under repeated rate-limit errors the wait before the first retry is
\* initialDelay (2000 ms as part_007 calls retryWithBackoff) and the wait
\* before each later retry is factor (2) times the wait before it.
C34_BackoffSchedule ==
  /\ waits # <<>> => waits[1] = initialDelay(rev)
  /\ \A i \in 2..Len(waits) : waits[i] = Factor * waits[i - 1]

\* ------------------------------------------------------------------------
\* More claims on the chunker (ChunkSpec)
\* ------------------------------------------------------------------------

\* C35: generateChunks packs greedily.  A record is appended to the current
\* chunk when the chunk's length plus the record's plus the 2 characters of
\* the separator is at most maxChunkSize, and starts a new chunk exactly when
\* that sum exceeds maxChunkSize; 7 records of 300 characters each with
\* maxChunkSize = 2000 give 2 chunks of 6 records and 1 record.
C35_GreedyPacking ==
  ppc = "chunked" =>
    /\ RecordsOf(chunks) = [k \in 1..Len(records) |-> k]
    /\ Len(records) > 0 =>
         ((chunks[1] = <<>>) = (RenderedLen(1) + 2 > maxChunkSize))
    /\ \A i \in 1..Len(chunks) :
         /\ \A j \in 2..Len(chunks[i]) :
              TextLen(SubSeq(chunks[i], 1, j - 1)) + RenderedLen(chunks[i][j]) + 2
                <= maxChunkSize
         /\ i >= 2 =>
              /\ chunks[i] # <<>>
              /\ TextLen(chunks[i - 1]) + RenderedLen(chunks[i][1]) + 2 > maxChunkSize
    /\ (/\ Len(records) = 7
        /\ \A k \in 1..7 : RenderedLen(k) = 300
        /\ maxChunkSize = 2000)
       => chunks = << <<1, 2, 3, 4, 5, 6>>, <<7>> >>

\* The scenario: 7 records of 300 characters, maxChunkSize = 2000, packed as
\* 6 records and 1 record.
C35_Witness ==
  /\ ppc = "chunked"
  /\ Len(records) = 7
  /\ \A k \in 1..7 : RenderedLen(k) = 300
  /\ maxChunkSize = 2000
  /\ Len(chunks) = 2
  /\ Len(chunks[1]) = 6
  /\ Len(chunks[2]) = 1

\* C36: for a non-empty array of records and any maxChunkSize, every chunk
\* generateChunks returns holds at least one whole record (so none is the
\* empty string), also when the first record alone is longer than maxChunkSize.
C36_NoEmptyChunk ==
  (ppc = "chunked" /\ Len(records) > 0) =>
    \A i \in 1..Len(chunks) : chunks[i] # <<>>

\* ------------------------------------------------------------------------
\* More claims on retrieval (FindSpec)
\* ------------------------------------------------------------------------

\* C37: the topK findRelevantContent sends to index.query is at least the
\* caller's k, for every query and every k; in part_007 it is k when the
\* material-code heuristic does not match and 50 when it matches.
C37_WideningNeverReduces ==
  ftopK # 0 =>
    /\ ftopK >= fk
    /\ rev = "p7" =>
         ftopK = (IF isMaterialCodeQuery(fquery) THEN WideTopK ELSE fk)

\* ------------------------------------------------------------------------
\* Rejected invocations (Spec)
\* ------------------------------------------------------------------------

\* C38: an invocation of processInventoryData or clearAllData whose first
\* read of the status finds isProcessing = true ends there: it returns the
\* rejection (success = false) without throwing; and the step by which an
\* invocation is rejected, at either of its two checks, reads a Processing
\* record and changes neither the status file, nor the lock file, nor the store.
C38_RejectionFrame ==
  [][\A p \in Users :
       /\ (/\ pc[p] = "check" /\ sub[p] = "gps"
           /\ (pc'[p] # pc[p] \/ sub'[p] # sub[p])
           /\ Processing(statusFile))
          => (pc'[p] = "done" /\ result'[p] = "rejected")
       /\ (pc[p] # "done" /\ pc'[p] = "done" /\ result'[p] = "rejected")
          => /\ pc[p] \in {"check", "locked"}
             /\ Processing(statusFile)
             /\ statusFile' = statusFile
             /\ lockFile' = lockFile
             /\ store' = store
             /\ vectorCount' = vectorCount
             /\ ~started'[p]
             /\ errorMessage'[p] = Undefined]_vars

\* An upload was rejected while the other user's run goes on, its status and
\* its lock in place.
C38_Witness ==
  \E p, q \in Users :
    /\ p # q
    /\ kind[p] = "process"
    /\ result[p] = "rejected"
    /\ Running(q)
    /\ Processing(statusFile)
    /\ statusFile[1].userId = q
    /\ statusFile[1].progress.current > 0
    /\ lockFile # <<>>
    /\ lockFile[1].userId = q

\* ------------------------------------------------------------------------
\* The locked flag (CoordSpec)
\* ------------------------------------------------------------------------

\* C39: in every status record the coordinator has persisted, after any
\* sequence of its operations, locked is true exactly when isProcessing is.
C39_LockedIffProcessing ==
  statusFile # <<>> => (statusFile[1].locked = statusFile[1].isProcessing)

\* setProcessingError has just ended a user's run: the record carries the
\* error and the user, and both flags are false.
C39_Witness ==
  /\ lastOp.op = "setProcessingError"
  /\ lastOp.ret = "returns"
  /\ statusFile # <<>>
  /\ statusFile[1].userId \in Users
  /\ statusFile[1].error # Undefined
  /\ ~statusFile[1].isProcessing
  /\ ~statusFile[1].locked


====
